---------------------------- MODULE Spec2Model ----------------------------
(***************************************************************************)
(* A model of raw-ipa's asynchronous pipeline substrate:                   *)
(*   - the rendezvous store, src/pipeline/hashmap_thread.rs                *)
(*     (HashMapHandler: one task that owns a HashMap and serves Write and  *)
(*     Remove commands read from an mpsc channel, each acknowledged on a   *)
(*     oneshot channel);                                                   *)
(*   - the example pipelines and the two-party exchange of                 *)
(*     src/bin/async_pipe.rs.                                              *)
(***************************************************************************)
EXTENDS Naturals, Sequences, FiniteSets

(***************************************************************************)
(* Bounds of the model.                                                    *)
(***************************************************************************)
\* Commands the store's free-running clients issue in one run, and oneshot
\* acknowledgement channels that can exist at once.
MaxReq == 3
\* Commands a requester that awaits every reply issues in one run.
MaxSerial == 4
\* Capacity of the store's command channel (chosen by whoever creates it).
ChanCap == 2
\* Largest x and y that Start is built with.
MaxInput == 3

\* Number of labels a matchkey set may hold.
MaxLabels == 2

\* Largest element of the group the matchkeys live in, which is 0 .. MaxPoint
\* under addition modulo MaxPoint + 1.
MaxPoint == 2

\* Largest total_count, epoch and seed given to generate_events.
MaxCount == 3
MaxEpoch == 1
MaxSeed == 2

\* Largest reach of an ad, and largest numbers of devices, impressions and
\* conversions of a user, that the sampling hands out.
MaxReach == 2
MaxDevices == 2
MaxImpressions == 2
MaxConversions == 1

(***************************************************************************)
(* Values.  Option<Vec<u8>> is a payload or None.                          *)
(***************************************************************************)
Keys == {"k1", "k2"}
Payloads == {"p1", "p2"}
None == "None"
OptPayload == Payloads \cup {None}
Clients == {"c1", "c2"}
Slots == 1 .. MaxReq

VARIABLES
    m,          \* HashMapHandler.m: key -> payload, None where the key is absent
    receiver,   \* HashMapHandler.receiver: the commands buffered in the mpsc channel
    senders,    \* the tasks that hold a live mpsc::Sender<HashMapCommand>
    handler,    \* "running" while run() loops, "dropped" once the handler is dropped
    ack,        \* the oneshot channels: slot -> [st, val]
    waiting,    \* client -> the slot whose reply it awaits, 0 when it awaits none
    nreq,       \* commands sent so far by the free-running clients
    trace,      \* the commands run() has dequeued, in order, each with its reply
    stdout,     \* the kinds of lines the handler has printed
    pipe,       \* the pipeline run: its steps, state, position, value and result
    events,     \* the begin and the end of each step's compute, in order
    task,       \* the task PairWith3 spawns
    fwd,        \* ForwardData's two futures: sent and received
    h1q,        \* the messages buffered on helper 1's inbound channel
    h2q,        \* the messages buffered on helper 2's inbound channel
    live,       \* the ends of those channels that are not dropped
    ppc,        \* where the run_pipe task is
    lpc,        \* where the helper's receive loop is
    mpc,        \* where the run_h2_mock task is
    mres,       \* the string run_h2_mock returns
    printed,    \* what main prints once both tasks are joined
    mk,         \* the matchkey sets and the key that report.rs is called on
    ret,        \* what the calls made on them have returned
    args,       \* the arguments generate_events is called with
    runs        \* the runs of generate_events: what each wrote and returned

storeVars == <<m, receiver, senders, handler, ack, waiting, nreq, trace, stdout>>

engineVars == <<pipe, events, task, fwd, ppc>>

partyVars == <<h1q, h2q, live, lpc, mpc, mres, printed>>

reportVars == <<mk, ret>>

genVars == <<args, runs>>

libVars == <<mk, ret, args, runs>>

vars == <<m, receiver, senders, handler, ack, waiting, nreq, trace, stdout,
          pipe, events, task, fwd, ppc, h1q, h2q, live, lpc, mpc, mres, printed,
          mk, ret, args, runs>>

(***************************************************************************)
(* HashMap and oneshot, as the handler uses them.                          *)
(***************************************************************************)
EmptyMap == [k \in Keys |-> None]

\* HashMap::insert: the new map and the value it ousted.
insert(map, key, value) ==
    [m |-> [map EXCEPT ![key] = value], old |-> map[key]]

\* HashMap::remove: the new map and the value it removed.
hm_remove(map, key) ==
    [m |-> [map EXCEPT ![key] = None], old |-> map[key]]

FreeAck == [st |-> "free", val |-> None]

\* oneshot::Sender::send: Ok and the value is ready for the receiver, or Err
\* when the receiver was dropped (both ends are then gone).
oneshot_send(a, slot, v) ==
    IF a[slot].st = "open"
    THEN [ok |-> TRUE, ack |-> [a EXCEPT ![slot] = [st |-> "ready", val |-> v]]]
    ELSE [ok |-> FALSE, ack |-> [a EXCEPT ![slot] = FreeAck]]

\* oneshot::channel(): the channel made for a new command.
FreeSlots == {s \in Slots : ack[s].st = "free"}
NewSlot == CHOOSE s \in FreeSlots : \A t \in FreeSlots : s <= t

\* The history keeps the commands dequeued, as many as any run issues.
HistoryLen == IF MaxReq < MaxSerial THEN MaxSerial ELSE MaxReq
Record(t, e) == IF Len(t) < HistoryLen THEN Append(t, e) ELSE t

(***************************************************************************)
(* Faulty variants of write and remove, used to test the properties below. *)
(***************************************************************************)
\* write that acknowledges with the value just written, not the ousted one.
write_acks_new(map, a, key, value, slot) ==
    LET ousted == insert(map, key, value)
        sent == oneshot_send(a, slot, value)
    IN  [m |-> ousted.m, reply |-> value, ack |-> sent.ack, ok |-> sent.ok]

\* write that discards the ousted value and acknowledges with None.
write_acks_none(map, a, key, value, slot) ==
    LET ousted == insert(map, key, value)
        sent == oneshot_send(a, slot, None)
    IN  [m |-> ousted.m, reply |-> None, ack |-> sent.ack, ok |-> sent.ok]

\* write that keeps the value already stored at the key (entry().or_insert).
write_keeps_first(map, a, key, value, slot) ==
    LET ousted == insert(map, key, value)
        sent == oneshot_send(a, slot, ousted.old)
    IN  [m |-> IF ousted.old = None THEN ousted.m ELSE map,
         reply |-> ousted.old, ack |-> sent.ack, ok |-> sent.ok]

\* remove that reads the value and leaves it in the table (get, not remove).
remove_keeps(map, a, key, slot) ==
    LET removed == hm_remove(map, key)
        sent == oneshot_send(a, slot, removed.old)
    IN  [m |-> map, reply |-> removed.old, ack |-> sent.ack, ok |-> sent.ok]

\* write that undoes the insert when the acknowledgement cannot be delivered.
write_rolls_back(map, a, key, value, slot) ==
    LET ousted == insert(map, key, value)
        sent == oneshot_send(a, slot, ousted.old)
    IN  [m |-> IF sent.ok THEN ousted.m ELSE map,
         reply |-> ousted.old, ack |-> sent.ack, ok |-> sent.ok]

(***************************************************************************)
(* HashMapHandler::write and ::remove: the table after the command, the    *)
(* value sent on the acknowledgement channel, and the Res<()> returned.    *)
(***************************************************************************)
write(map, a, key, value, slot) ==
    LET ousted == insert(map, key, value)
        sent == oneshot_send(a, slot, ousted.old)
    IN  [m |-> ousted.m, reply |-> ousted.old, ack |-> sent.ack, ok |-> sent.ok]

remove(map, a, key, slot) ==
    LET removed == hm_remove(map, key)
        sent == oneshot_send(a, slot, removed.old)
    IN  [m |-> removed.m, reply |-> removed.old, ack |-> sent.ack, ok |-> sent.ok]

(***************************************************************************)
(* HashMapHandler::run: one iteration of the loop per dequeued command.    *)
(***************************************************************************)
\* What the handler has printed after a command: the command's own line, and
\* the complaint of run() when the command returned an Err.
Printed(line, ok) ==
    stdout \cup {line} \cup (IF ok THEN {} ELSE {"could not complete operation"})

\* A faulty variant: run() returns at the first Err, dropping the handler.
on_result_fatal(ok) == IF ok THEN "running" ELSE "dropped"

\* The handler after run() has looked at a command's result: an Err is only
\* printed, and the loop goes on.
on_result(ok) == "running"

run_Write ==
    /\ handler = "running"
    /\ receiver # <<>>
    /\ Head(receiver).op = "Write"
    /\ LET command == Head(receiver)
           res == write(m, ack, command.key, command.value, command.ack)
       IN  /\ m' = res.m
           /\ ack' = res.ack
           /\ trace' = Record(trace, [op |-> "Write", key |-> command.key,
                                       value |-> command.value, reply |-> res.reply,
                                       acked |-> res.ok])
           /\ stdout' = Printed("writing data", res.ok)
           /\ handler' = on_result(res.ok)
    /\ receiver' = Tail(receiver)
    /\ UNCHANGED <<senders, waiting, nreq>>

run_Remove ==
    /\ handler = "running"
    /\ receiver # <<>>
    /\ Head(receiver).op = "Remove"
    /\ LET command == Head(receiver)
           res == remove(m, ack, command.key, command.ack)
       IN  /\ m' = res.m
           /\ ack' = res.ack
           /\ trace' = Record(trace, [op |-> "Remove", key |-> command.key,
                                       value |-> None, reply |-> res.reply,
                                       acked |-> res.ok])
           /\ stdout' = Printed("removing data", res.ok)
           /\ handler' = on_result(res.ok)
    /\ receiver' = Tail(receiver)
    /\ UNCHANGED <<senders, waiting, nreq>>

\* A faulty variant: the loop ends as soon as every sender is dropped, with
\* commands still buffered.
run_Closed_early ==
    /\ handler = "running"
    /\ senders = {}
    /\ handler' = "dropped"
    /\ m' = EmptyMap
    /\ stdout' = stdout \cup {"closing"}
    /\ UNCHANGED <<receiver, senders, ack, waiting, nreq, trace>>

\* recv() returns None: every sender is dropped and the buffer is empty.  The
\* loop ends, run() returns and the handler (with its table) is dropped.
run_Closed ==
    /\ handler = "running"
    /\ receiver = <<>>
    /\ senders = {}
    /\ handler' = "dropped"
    /\ m' = EmptyMap
    /\ stdout' = stdout \cup {"closing"}
    /\ UNCHANGED <<receiver, senders, ack, waiting, nreq, trace>>

\* A oneshot channel whose sender was dropped without sending.
ClosedAck == [st |-> "closed", val |-> None]

\* Drop for HashMapHandler, when the handler goes while a sender may be alive
\* and commands may be buffered: the task that runs run() is aborted at
\* recv().await or cancelled by the runtime's shutdown, or a handler that was
\* made is dropped without being run.  "closing" is printed; the table goes,
\* and with the receiver go the buffered commands, unhandled, and their
\* oneshot senders, so that a requester still waiting sees its channel closed.
drop ==
    /\ handler = "running"
    /\ handler' = "dropped"
    /\ m' = EmptyMap
    /\ stdout' = stdout \cup {"closing"}
    /\ receiver' = <<>>
    /\ ack' = [s \in Slots |->
                 IF \E i \in DOMAIN receiver : receiver[i].ack = s
                 THEN (IF ack[s].st = "open" THEN ClosedAck ELSE FreeAck)
                 ELSE ack[s]]
    /\ UNCHANGED <<senders, waiting, nreq, trace>>

(***************************************************************************)
(* The store's clients: any task holding a Sender<HashMapCommand>.         *)
(***************************************************************************)
WriteCommand(key, value, slot) ==
    [op |-> "Write", key |-> key, value |-> value, ack |-> slot]

RemoveCommand(key, slot) ==
    [op |-> "Remove", key |-> key, value |-> None, ack |-> slot]

\* sender.send(command).await with a fresh oneshot, whose receiver c then awaits.
SendCommand(c, command) ==
    /\ c \in senders
    /\ handler # "dropped"
    /\ waiting[c] = 0
    /\ Len(receiver) < ChanCap
    /\ FreeSlots # {}
    /\ receiver' = Append(receiver, command)
    /\ ack' = [ack EXCEPT ![command.ack] = [st |-> "open", val |-> None]]
    /\ waiting' = [waiting EXCEPT ![c] = command.ack]

ClientWrite(c) ==
    /\ nreq < MaxReq
    /\ \E key \in Keys, value \in Payloads :
          SendCommand(c, WriteCommand(key, value, NewSlot))
    /\ nreq' = nreq + 1
    /\ UNCHANGED <<m, senders, handler, trace, stdout>>

ClientRemove(c) ==
    /\ nreq < MaxReq
    /\ \E key \in Keys : SendCommand(c, RemoveCommand(key, NewSlot))
    /\ nreq' = nreq + 1
    /\ UNCHANGED <<m, senders, handler, trace, stdout>>

\* rx.await completes with the value the handler sent.
ClientAcked(c) ==
    /\ waiting[c] # 0
    /\ ack[waiting[c]].st = "ready"
    /\ ack' = [ack EXCEPT ![waiting[c]] = FreeAck]
    /\ waiting' = [waiting EXCEPT ![c] = 0]
    /\ UNCHANGED <<m, receiver, senders, handler, nreq, trace, stdout>>

\* rx.await completes with an error: the command was dropped unhandled.
ClientClosed(c) ==
    /\ waiting[c] # 0
    /\ ack[waiting[c]].st = "closed"
    /\ ack' = [ack EXCEPT ![waiting[c]] = FreeAck]
    /\ waiting' = [waiting EXCEPT ![c] = 0]
    /\ UNCHANGED <<m, receiver, senders, handler, nreq, trace, stdout>>

\* sender.send(command).await once the receiver is dropped: the send is
\* refused, the command comes back in the error and nothing is buffered.
ClientSendFails(c) ==
    /\ c \in senders
    /\ waiting[c] = 0
    /\ handler = "dropped"
    /\ nreq < MaxReq
    /\ nreq' = nreq + 1
    /\ UNCHANGED <<m, receiver, senders, handler, ack, waiting, trace, stdout>>

\* The requester gives up: it drops the oneshot receiver it was awaiting.
ClientGiveUp(c) ==
    /\ waiting[c] # 0
    /\ ack' = [ack EXCEPT ![waiting[c]] =
                  IF @.st = "open" THEN [st |-> "rxdropped", val |-> None]
                  ELSE FreeAck]
    /\ waiting' = [waiting EXCEPT ![c] = 0]
    /\ UNCHANGED <<m, receiver, senders, handler, nreq, trace, stdout>>

\* A requester that sends one command at a time and awaits its reply before
\* the next, as send_to_next and receive_from do.
SerialWrite(c) ==
    /\ nreq < MaxSerial
    /\ \E key \in Keys, value \in Payloads :
          SendCommand(c, WriteCommand(key, value, NewSlot))
    /\ nreq' = nreq + 1
    /\ UNCHANGED <<m, senders, handler, trace, stdout>>

SerialRemove(c) ==
    /\ nreq < MaxSerial
    /\ \E key \in Keys : SendCommand(c, RemoveCommand(key, NewSlot))
    /\ nreq' = nreq + 1
    /\ UNCHANGED <<m, senders, handler, trace, stdout>>

\* The client drops its Sender<HashMapCommand>.
ClientDrop(c) ==
    /\ c \in senders
    /\ waiting[c] = 0
    /\ senders' = senders \ {c}
    /\ UNCHANGED <<m, receiver, handler, ack, waiting, nreq, trace, stdout>>

(***************************************************************************)
(* Values that flow through a pipeline: (), (i32, i32), i32 and String.    *)
(***************************************************************************)
Unit == [ty |-> "unit", a |-> 0, b |-> 0, s |-> ""]
Pair(x, y) == [ty |-> "pair", a |-> x, b |-> y, s |-> ""]
I32(n) == [ty |-> "i32", a |-> n, b |-> 0, s |-> ""]
Str(s) == [ty |-> "str", a |-> 0, b |-> 0, s |-> s]

Digits == <<"0", "1", "2", "3", "4", "5", "6", "7", "8", "9">>

\* i32::to_string, on the non-negative values the pipelines produce.
RECURSIVE to_string(_)
to_string(n) ==
    IF n < 10 THEN Digits[n + 1]
    ELSE to_string(n \div 10) \o Digits[(n % 10) + 1]

\* The two correlation identifiers main draws with Uuid::new_v4().
h1_recv_uuid == "k1"
h2_recv_uuid == "k2"

\* The message run_h2_mock sends.
MockMessage == "mocked_h2_data"

\* The strings a helper exchanges in this program.
Strings == {to_string(n) : n \in 0 .. (2 * MaxInput)} \cup {MockMessage}

\* SendStr -> Vec<u8>: the string's UTF-8 bytes; and back (None: not a string).
as_bytes(s) == "b'" \o s \o "'"
from_utf8(bytes) ==
    IF \E s \in Strings : as_bytes(s) = bytes
    THEN CHOOSE s \in Strings : as_bytes(s) = bytes
    ELSE None

\* ForwardRequest { id, num } encoded to a buffer, and decoded from one.
encode(id, num) == <<"ForwardRequest", id, num>>
decode(buf) == [id |-> buf[2], num |-> buf[3]]

(***************************************************************************)
(* The steps' compute functions.                                           *)
(***************************************************************************)
Step(name, arg) == [name |-> name, arg |-> arg]

\* Start::compute: Ok((self.x, self.y)).
Start_compute(self, inp) == Pair(self.arg[1], self.arg[2])

\* Add::compute: Ok(inp.0 + inp.1).
Add_compute(self, inp) == I32(inp.a + inp.b)

\* Stringify::compute: Ok(inp.to_string()).
Stringify_compute(self, inp) == Str(to_string(inp.a))

\* A faulty variant: the input moved past the spawned task is lost.
PairWith3_compute_stale(self, inp, three) == [ty |-> "pair", a |-> 0, b |-> three, s |-> ""]

\* PairWith3::compute once the spawned task is joined: Ok((inp, three)).
PairWith3_compute(self, inp, three) == Pair(inp.a, three)

\* ExampleAPipeline::pipeline: the chain it builds from Start { x, y }.
ExampleAPipeline(x, y) ==
    << Step("Start", <<x, y>>), Step("Add", <<>>),
       Step("PairWith3", <<>>), Step("Add", <<>>) >>

\* ForwardingPipeline::pipeline: the chain it builds.
ForwardingPipeline(send_uuid, receive_uuid) ==
    << Step("Start", <<1, 2>>), Step("Add", <<>>),
       Step("Stringify", <<>>), Step("ForwardData", <<send_uuid, receive_uuid>>) >>

(***************************************************************************)
(* The chain build_async_pipeline! unrolls: each step's compute is awaited *)
(* on the previous step's output, and an Err returns at once.              *)
(***************************************************************************)
Ok(v) == [ok |-> TRUE, val |-> v, err |-> ""]
Err(e) == [ok |-> FALSE, val |-> Unit, err |-> e]
NoResult == [ok |-> FALSE, val |-> Unit, err |-> "pending"]

NewPipeline(steps) ==
    [steps |-> steps, state |-> "NotStarted", idx |-> 0, val |-> Unit, out |-> NoResult]

\* The step whose compute is next (or in progress).
Current == pipe.steps[pipe.idx + 1]

AtStep(name) ==
    /\ pipe.state = "Running"
    /\ pipe.idx < Len(pipe.steps)
    /\ Current.name = name

Event(ev, v) == [ev |-> ev, step |-> pipe.idx + 1, v |-> v]

\* A faulty variant: the output is handed on, but the next step is skipped.
StepOk_skips(v) ==
    IF pipe.idx + 2 >= Len(pipe.steps)
    THEN [pipe EXCEPT !.idx = Len(pipe.steps), !.val = v, !.state = "Completed",
                      !.out = [ok |-> TRUE, val |-> v, err |-> ""]]
    ELSE [pipe EXCEPT !.idx = @ + 2, !.val = v]

\* compute returned Ok(v): v is the next step's input, or the pipeline's output.
StepOk(v) ==
    IF pipe.idx + 1 = Len(pipe.steps)
    THEN [pipe EXCEPT !.idx = @ + 1, !.val = v, !.state = "Completed", !.out = Ok(v)]
    ELSE [pipe EXCEPT !.idx = @ + 1, !.val = v]

\* A faulty variant: the error is noted but the chain goes on to the next step.
StepErr_continues(e) ==
    IF pipe.idx + 1 = Len(pipe.steps)
    THEN [pipe EXCEPT !.state = "Failed", !.out = [ok |-> FALSE, val |-> Unit, err |-> e]]
    ELSE [pipe EXCEPT !.idx = @ + 1]

\* compute returned Err(e): the ? operator returns it from the pipeline.
StepErr(e) == [pipe EXCEPT !.state = "Failed", !.out = Err(e)]

\* pipe(()).await: the run starts.
pipeline ==
    /\ ppc = "ready"
    /\ pipe.state = "NotStarted"
    /\ pipe' = [pipe EXCEPT !.state = "Running"]
    /\ ppc' = "piping"
    /\ UNCHANGED <<events, task, fwd>>

\* A step whose compute returns without suspending.
Immediate(name, out) ==
    /\ AtStep(name)
    /\ pipe' = StepOk(out)
    /\ events' = events \o <<Event("begin", pipe.val), Event("end", out)>>
    /\ UNCHANGED <<task, fwd, ppc>>

step_Start == Immediate("Start", Start_compute(Current, pipe.val))

step_Add == Immediate("Add", Add_compute(Current, pipe.val))

step_Stringify == Immediate("Stringify", Stringify_compute(Current, pipe.val))

\* PairWith3::compute up to res.await: the task is spawned and starts its sleep.
PairWith3_spawn ==
    /\ AtStep("PairWith3")
    /\ task = "none"
    /\ task' = "sleeping"
    /\ events' = Append(events, Event("begin", pipe.val))
    /\ UNCHANGED <<pipe, fwd, ppc>>

\* The spawned task: the sleep elapses and it returns 3.
task_finish ==
    /\ task = "sleeping"
    /\ task' = "finished"
    /\ UNCHANGED <<pipe, events, fwd, ppc>>

\* The spawned task is cancelled before it returns (the runtime shuts down).
task_cancel ==
    /\ task = "sleeping"
    /\ task' = "cancelled"
    /\ UNCHANGED <<pipe, events, fwd, ppc>>

\* PairWith3::compute from res.await on: a JoinError becomes Error::Internal.
PairWith3_join ==
    /\ AtStep("PairWith3")
    /\ task \in {"finished", "cancelled"}
    /\ IF task = "finished"
       THEN LET out == PairWith3_compute(Current, pipe.val, 3)
            IN  /\ pipe' = StepOk(out)
                /\ events' = Append(events, Event("end", out))
       ELSE /\ pipe' = StepErr("Internal")
            /\ UNCHANGED events
    /\ task' = "joined"
    /\ UNCHANGED <<fwd, ppc>>

(***************************************************************************)
(* ForwardData::compute: try_join!(send_to_next(..), receive_from(..)).    *)
(***************************************************************************)
NoFwd == [send |-> "none", recv |-> "none", val |-> ""]

\* The two futures are made; try_join! then polls them.
ForwardData_compute ==
    /\ AtStep("ForwardData")
    /\ fwd.send = "none"
    /\ fwd' = [send |-> "new", recv |-> "new", val |-> ""]
    /\ events' = Append(events, Event("begin", pipe.val))
    /\ UNCHANGED <<pipe, task, ppc>>
    /\ UNCHANGED <<storeVars, partyVars, libVars>>

\* A faulty variant: the send reports success whether or not the queue is open.
send_to_next_blind ==
    /\ AtStep("ForwardData")
    /\ fwd.send = "new"
    /\ h2q' = Append(h2q, <<"ForwardRequest", Current.arg[1], "b'" \o pipe.val.s \o "'">>)
    /\ fwd' = [fwd EXCEPT !.send = "ok"]
    /\ UNCHANGED <<pipe, events, task, ppc>>
    /\ UNCHANGED <<storeVars, h1q, live, lpc, mpc, mres, printed>>
    /\ UNCHANGED libVars

\* ChannelHelper::send_to_next: the value is framed with the step's id and
\* queued for the next helper; a SendError when that queue's receiver is gone.
send_to_next ==
    /\ AtStep("ForwardData")
    /\ fwd.send = "new"
    /\ IF "h2_recv" \in live
       THEN /\ h2q' = Append(h2q, encode(Current.arg[1], as_bytes(pipe.val.s)))
            /\ fwd' = [fwd EXCEPT !.send = "ok"]
       ELSE /\ fwd' = [fwd EXCEPT !.send = "err"]
            /\ UNCHANGED h2q
    /\ UNCHANGED <<pipe, events, task, ppc>>
    /\ UNCHANGED <<storeVars, h1q, live, lpc, mpc, mres, printed>>
    /\ UNCHANGED libVars

\* ChannelHelper::receive_from, asking: a Remove of the awaited id is sent to
\* the store.
receive_from ==
    /\ AtStep("ForwardData")
    /\ fwd.recv = "new"
    /\ SendCommand("helper", RemoveCommand(Current.arg[2], NewSlot))
    /\ fwd' = [fwd EXCEPT !.recv = "waiting"]
    /\ UNCHANGED <<m, senders, handler, nreq, trace, stdout>>
    /\ UNCHANGED <<pipe, events, task, ppc>>
    /\ UNCHANGED partyVars
    /\ UNCHANGED libVars

\* ChannelHelper::receive_from, answered: the one read of the store has its
\* reply.  A payload is decoded and returned, a ReceiveError when it does not
\* decode.  The store answers a read of an id that is not in its table with
\* None at once, so the read never waits for the id: the receive ends there
\* with a ReceiveError, whether the inbound channel has closed before the id
\* arrived or the id is still on its way.
receive_from_reply ==
    /\ AtStep("ForwardData")
    /\ fwd.recv = "waiting"
    /\ ack[waiting["helper"]].st = "ready"
    /\ LET removed == ack[waiting["helper"]].val
       IN  fwd' = IF removed = None THEN [fwd EXCEPT !.recv = "err"]
                  ELSE IF from_utf8(removed) = None THEN [fwd EXCEPT !.recv = "err"]
                  ELSE [fwd EXCEPT !.recv = "ok", !.val = from_utf8(removed)]
    /\ ack' = [ack EXCEPT ![waiting["helper"]] = FreeAck]
    /\ waiting' = [waiting EXCEPT !["helper"] = 0]
    /\ UNCHANGED <<m, receiver, senders, handler, nreq, trace, stdout>>
    /\ UNCHANGED <<pipe, events, task, ppc>>
    /\ UNCHANGED partyVars
    /\ UNCHANGED libVars

\* A faulty variant: a join that looks only at the received value, and so
\* returns it although the send failed.
ForwardData_try_join_silent ==
    /\ AtStep("ForwardData")
    /\ fwd.send \in {"ok", "err"}
    /\ fwd.recv \in {"ok", "err"}
    /\ IF fwd.recv = "err"
       THEN /\ pipe' = [pipe EXCEPT !.state = "Failed",
                                    !.out = [ok |-> FALSE, val |-> Unit, err |-> "ReceiveError"]]
            /\ UNCHANGED events
       ELSE /\ pipe' = [pipe EXCEPT !.idx = @ + 1, !.val = Str(fwd.val), !.state = "Completed",
                                    !.out = [ok |-> TRUE, val |-> Str(fwd.val), err |-> ""]]
            /\ events' = Append(events, [ev |-> "end", step |-> pipe.idx + 1, v |-> Str(fwd.val)])
    /\ fwd' = [fwd EXCEPT !.send = "joined", !.recv = "joined"]
    /\ UNCHANGED <<storeVars, task, ppc>>
    /\ UNCHANGED partyVars
    /\ UNCHANGED libVars

\* try_join! completes: with the first Err (the other future is dropped), or
\* with the received string once both futures are Ok.
ForwardData_try_join ==
    /\ AtStep("ForwardData")
    /\ IF "err" \in {fwd.send, fwd.recv}
       THEN /\ pipe' = StepErr(IF fwd.send = "err" THEN "SendError" ELSE "ReceiveError")
            /\ UNCHANGED events
       ELSE /\ fwd.send = "ok"
            /\ fwd.recv = "ok"
            /\ pipe' = StepOk(Str(fwd.val))
            /\ events' = Append(events, Event("end", Str(fwd.val)))
    /\ IF fwd.recv = "waiting"
       THEN /\ ack' = [ack EXCEPT ![waiting["helper"]] =
                          IF @.st = "open" THEN [st |-> "rxdropped", val |-> None]
                          ELSE FreeAck]
            /\ waiting' = [waiting EXCEPT !["helper"] = 0]
       ELSE UNCHANGED <<ack, waiting>>
    /\ fwd' = [fwd EXCEPT !.send = "joined", !.recv = "joined"]
    /\ UNCHANGED <<m, receiver, senders, handler, nreq, trace, stdout>>
    /\ UNCHANGED <<task, ppc>>
    /\ UNCHANGED partyVars
    /\ UNCHANGED libVars

(***************************************************************************)
(* The run_pipe task of main, and the helper it creates.                   *)
(***************************************************************************)
\* ChannelHelper::new: the store and the receive loop are spawned; the helper
\* and the loop each hold a Sender<HashMapCommand>.
ChannelHelper_new ==
    /\ ppc = "spawned"
    /\ ppc' = "ready"
    /\ handler' = "running"
    /\ senders' = {"helper", "loop"}
    /\ lpc' = "recv"
    /\ UNCHANGED <<m, receiver, ack, waiting, nreq, trace, stdout>>
    /\ UNCHANGED <<pipe, events, task, fwd>>
    /\ UNCHANGED <<h1q, h2q, live, mpc, mres, printed>>
    /\ UNCHANGED libVars

\* The task returns the pipeline's result; the pipeline and its helper are
\* dropped, and with the helper its senders.
run_pipe_exit ==
    /\ ppc = "piping"
    /\ pipe.state \in {"Completed", "Failed"}
    /\ ppc' = "exited"
    /\ senders' = senders \ {"helper"}
    /\ live' = live \ {"h2_send"}
    /\ UNCHANGED <<m, receiver, handler, ack, waiting, nreq, trace, stdout>>
    /\ UNCHANGED <<pipe, events, task, fwd>>
    /\ UNCHANGED <<h1q, h2q, lpc, mpc, mres, printed>>
    /\ UNCHANGED libVars

\* The receive loop takes a message off the inbound channel and writes its
\* payload into the store under its id.
loop_recv ==
    /\ lpc = "recv"
    /\ h1q # <<>>
    /\ LET req == decode(Head(h1q))
       IN  SendCommand("loop", WriteCommand(req.id, req.num, NewSlot))
    /\ h1q' = Tail(h1q)
    /\ lpc' = "ack"
    /\ UNCHANGED <<m, senders, handler, nreq, trace, stdout>>
    /\ UNCHANGED engineVars
    /\ UNCHANGED <<h2q, live, mpc, mres, printed>>
    /\ UNCHANGED libVars

\* The store acknowledged the Write; the loop goes back to the channel.
loop_acked ==
    /\ lpc = "ack"
    /\ ClientAcked("loop")
    /\ lpc' = "recv"
    /\ UNCHANGED engineVars
    /\ UNCHANGED <<h1q, h2q, live, mpc, mres, printed>>
    /\ UNCHANGED libVars

\* The inbound channel is closed and empty: the loop ends and drops what it holds.
loop_closed ==
    /\ lpc = "recv"
    /\ h1q = <<>>
    /\ "h1_send" \notin live
    /\ lpc' = "ended"
    /\ live' = live \ {"h1_recv"}
    /\ senders' = senders \ {"loop"}
    /\ UNCHANGED <<m, receiver, handler, ack, waiting, nreq, trace, stdout>>
    /\ UNCHANGED engineVars
    /\ UNCHANGED <<h1q, h2q, mpc, mres, printed>>
    /\ UNCHANGED libVars

(***************************************************************************)
(* The run_h2_mock task of main, and main's join.                          *)
(***************************************************************************)
MockEnded == live \ {"h1_send", "h2_recv"}

\* h1_send.send(buf).await: the mocked message goes to helper 1.
mock_send ==
    /\ mpc = "send"
    /\ IF "h1_recv" \in live
       THEN /\ h1q' = Append(h1q, encode(h2_recv_uuid, as_bytes(MockMessage)))
            /\ mpc' = "recv"
            /\ UNCHANGED live
       ELSE /\ mpc' = "failed"
            /\ live' = MockEnded
            /\ UNCHANGED h1q
    /\ UNCHANGED <<h2q, lpc, mres, printed>>
    /\ UNCHANGED <<storeVars, engineVars>>
    /\ UNCHANGED libVars

\* h2_recv.recv().await.unwrap(), then the decoding of what arrived.
mock_recv ==
    /\ mpc = "recv"
    /\ ~(h2q = <<>> /\ "h2_send" \in live)
    /\ IF h2q = <<>>
       THEN /\ mpc' = "panicked"
            /\ UNCHANGED <<h2q, mres>>
       ELSE LET str == from_utf8(decode(Head(h2q)).num)
            IN  /\ h2q' = Tail(h2q)
                /\ mpc' = IF str = None THEN "failed" ELSE "done"
                /\ mres' = IF str = None THEN mres ELSE str
    /\ live' = MockEnded
    /\ UNCHANGED <<h1q, lpc, printed>>
    /\ UNCHANGED <<storeVars, engineVars>>
    /\ UNCHANGED libVars

\* What a peer may put on the wire as a message's payload: the bytes of a
\* string, or bytes that are not UTF-8.
PeerBytes == {as_bytes(MockMessage), "b'\\xff'"}

\* A peer in place of run_h2_mock: it sends helper 1 a message for the id the
\* pipeline awaits, with a payload of its choice.
peer_send ==
    /\ mpc = "send"
    /\ "h1_recv" \in live
    /\ \E bytes \in PeerBytes : h1q' = Append(h1q, encode(h2_recv_uuid, bytes))
    /\ mpc' = "recv"
    /\ UNCHANGED <<h2q, live, lpc, mres, printed>>
    /\ UNCHANGED <<storeVars, engineVars>>
    /\ UNCHANGED libVars

\* The peer's task ends early: its two channel ends are dropped with it.
peer_gone ==
    /\ mpc \in {"send", "recv"}
    /\ mpc' = "failed"
    /\ live' = MockEnded
    /\ UNCHANGED <<h1q, h2q, lpc, mres, printed>>
    /\ UNCHANGED <<storeVars, engineVars>>
    /\ UNCHANGED libVars

\* try_join!(run_pipe, run_h2_mock), then the println! of both outputs.  A
\* task that panicked makes try_join! yield a JoinError, which main returns
\* as its error; a task that returned an Err makes main panic at unwrap().
main_join ==
    /\ ppc = "exited"
    /\ mpc \in {"done", "failed", "panicked"}
    /\ printed = <<>>
    /\ printed' = IF pipe.out.ok /\ mpc = "done"
                  THEN <<pipe.out.val.s, mres>>
                  ELSE IF mpc = "panicked" THEN <<"Err(JoinError)">>
                  ELSE <<"panic">>
    /\ UNCHANGED <<h1q, h2q, live, lpc, mpc, mres>>
    /\ UNCHANGED <<storeVars, engineVars>>
    /\ UNCHANGED libVars

\* The receive loop's task is dropped where it stands: its Sender, the inbound
\* Receiver with what it buffers, and the acknowledgement it awaits go with it.
loop_dropped ==
    /\ lpc \in {"recv", "ack"}
    /\ lpc' = "ended"
    /\ live' = live \ {"h1_recv"}
    /\ senders' = senders \ {"loop"}
    /\ h1q' = <<>>
    /\ ack' = IF waiting["loop"] = 0 THEN ack
              ELSE [ack EXCEPT ![waiting["loop"]] =
                       IF @.st = "open" THEN [st |-> "rxdropped", val |-> None]
                       ELSE FreeAck]
    /\ waiting' = [waiting EXCEPT !["loop"] = 0]
    /\ UNCHANGED <<m, receiver, handler, nreq, trace, stdout>>
    /\ UNCHANGED engineVars
    /\ UNCHANGED <<h2q, mpc, mres, printed>>
    /\ UNCHANGED libVars

\* main has returned (or panicked): the runtime of #[tokio::main] shuts down
\* and drops every task that is still alive, each where it stands.  By then
\* run_pipe and run_h2_mock have ended (main joined them); the store's task
\* and the helper's receive loop may be left, and are dropped one after the
\* other in either order.
runtime_shutdown ==
    /\ printed # <<>>
    /\ \/ drop /\ UNCHANGED <<engineVars, partyVars, libVars>>
       \/ loop_dropped

(***************************************************************************)
(* The store with free-running clients.                                    *)
(***************************************************************************)
\* HashMapHandler::new, and a Sender clone in the hands of each client.
StoreInit ==
    /\ m = EmptyMap
    /\ receiver = <<>>
    /\ senders = Clients
    /\ handler = "running"
    /\ ack = [s \in Slots |-> FreeAck]
    /\ waiting = [c \in Clients |-> 0]
    /\ nreq = 0
    /\ trace = <<>>
    /\ stdout = {}

\* No pipeline and no helper: what the store's own specification holds still.
EngineIdle ==
    /\ pipe = NewPipeline(<<>>)
    /\ events = <<>>
    /\ task = "none"
    /\ fwd = NoFwd
    /\ ppc = "none"

PartyIdle ==
    /\ h1q = <<>>
    /\ h2q = <<>>
    /\ live = {}
    /\ lpc = "unborn"
    /\ mpc = "none"
    /\ mres = ""
    /\ printed = <<>>

\* No report: nothing in report.rs has been called.
EmptyMatchkeys == [l \in {} |-> 0]

NoReturn ==
    [done |-> {}, n_ab |-> 0, n_ba |-> 0, eq_ab |-> FALSE, eq_aa |-> FALSE,
     partial |-> EmptyMatchkeys, full |-> EmptyMatchkeys]

\* generate_events has not been called: no arguments, and no run has begun.
Runs == {1, 2}
NoArgs == [total_count |-> 0, epoch |-> 0, seed |-> <<>>]
NotRun == [done |-> FALSE, secret_share |-> FALSE, out |-> <<>>, ret |-> <<0, 0>>]

LibIdle ==
    /\ mk = [enc |-> EmptyMatchkeys, key |-> 0, a |-> EmptyMatchkeys, b |-> EmptyMatchkeys]
    /\ ret = NoReturn
    /\ args = NoArgs
    /\ runs = [i \in Runs |-> NotRun]

Init == StoreInit /\ EngineIdle /\ PartyIdle /\ LibIdle

\* HashMapHandler::run, as the task the runtime polls.
StoreRuns ==
    \/ run_Write /\ UNCHANGED <<engineVars, partyVars, libVars>>
    \/ run_Remove /\ UNCHANGED <<engineVars, partyVars, libVars>>
    \/ run_Closed /\ UNCHANGED <<engineVars, partyVars, libVars>>

Next ==
    \/ StoreRuns
    \/ drop /\ UNCHANGED <<engineVars, partyVars, libVars>>
    \/ \E c \in Clients : ClientClosed(c) /\ UNCHANGED <<engineVars, partyVars, libVars>>
    \/ \E c \in Clients : ClientSendFails(c) /\ UNCHANGED <<engineVars, partyVars, libVars>>
    \/ \E c \in Clients : ClientWrite(c) /\ UNCHANGED <<engineVars, partyVars, libVars>>
    \/ \E c \in Clients : ClientRemove(c) /\ UNCHANGED <<engineVars, partyVars, libVars>>
    \/ \E c \in Clients : ClientAcked(c) /\ UNCHANGED <<engineVars, partyVars, libVars>>
    \/ \E c \in Clients : ClientGiveUp(c) /\ UNCHANGED <<engineVars, partyVars, libVars>>
    \/ \E c \in Clients : ClientDrop(c) /\ UNCHANGED <<engineVars, partyVars, libVars>>

Spec == Init /\ [][Next]_vars

\* The tokio runtime schedules the handler's task whenever it can make progress.
FairSpec == Spec /\ WF_vars(StoreRuns)

(***************************************************************************)
(* The store with one requester that awaits every reply.                   *)
(***************************************************************************)
Requester == "c1"

SerialInit ==
    /\ m = EmptyMap
    /\ receiver = <<>>
    /\ senders = {Requester}
    /\ handler = "running"
    /\ ack = [s \in Slots |-> FreeAck]
    /\ waiting = [c \in Clients |-> 0]
    /\ nreq = 0
    /\ trace = <<>>
    /\ stdout = {}
    /\ EngineIdle
    /\ PartyIdle
    /\ LibIdle

SerialNext ==
    \/ StoreRuns
    \/ SerialWrite(Requester) /\ UNCHANGED <<engineVars, partyVars, libVars>>
    \/ SerialRemove(Requester) /\ UNCHANGED <<engineVars, partyVars, libVars>>
    \/ ClientAcked(Requester) /\ UNCHANGED <<engineVars, partyVars, libVars>>
    \/ ClientDrop(Requester) /\ UNCHANGED <<engineVars, partyVars, libVars>>

SerialSpec == SerialInit /\ [][SerialNext]_vars

(***************************************************************************)
(* ExampleAPipeline run on its own.                                        *)
(***************************************************************************)
\* No store yet: none exists before a ChannelHelper is made.
StoreUnborn(clients) ==
    /\ m = EmptyMap
    /\ receiver = <<>>
    /\ senders = {}
    /\ handler = "unborn"
    /\ ack = [s \in Slots |-> FreeAck]
    /\ waiting = [c \in clients |-> 0]
    /\ nreq = 0
    /\ trace = <<>>
    /\ stdout = {}

ExampleInit ==
    /\ StoreUnborn({})
    /\ PartyIdle
    /\ LibIdle
    /\ \E x, y \in 0 .. MaxInput : pipe = NewPipeline(ExampleAPipeline(x, y))
    /\ events = <<>>
    /\ task = "none"
    /\ fwd = NoFwd
    /\ ppc = "ready"

ExampleNext ==
    \/ pipeline /\ UNCHANGED <<storeVars, partyVars, libVars>>
    \/ step_Start /\ UNCHANGED <<storeVars, partyVars, libVars>>
    \/ step_Add /\ UNCHANGED <<storeVars, partyVars, libVars>>
    \/ PairWith3_spawn /\ UNCHANGED <<storeVars, partyVars, libVars>>
    \/ task_finish /\ UNCHANGED <<storeVars, partyVars, libVars>>
    \/ task_cancel /\ UNCHANGED <<storeVars, partyVars, libVars>>
    \/ PairWith3_join /\ UNCHANGED <<storeVars, partyVars, libVars>>

ExampleSpec == ExampleInit /\ [][ExampleNext]_vars

\* ExampleAPipeline on a runtime that outlives the run: the spawned task is
\* never cancelled, and every task that can progress is eventually polled.
ScenarioNext ==
    \/ pipeline /\ UNCHANGED <<storeVars, partyVars, libVars>>
    \/ step_Start /\ UNCHANGED <<storeVars, partyVars, libVars>>
    \/ step_Add /\ UNCHANGED <<storeVars, partyVars, libVars>>
    \/ PairWith3_spawn /\ UNCHANGED <<storeVars, partyVars, libVars>>
    \/ task_finish /\ UNCHANGED <<storeVars, partyVars, libVars>>
    \/ PairWith3_join /\ UNCHANGED <<storeVars, partyVars, libVars>>

ScenarioSpec == ExampleInit /\ [][ScenarioNext]_vars /\ WF_vars(ScenarioNext)

(***************************************************************************)
(* main of async_pipe.rs: the ForwardingPipeline of helper 1 against the   *)
(* mocked helper 2.                                                        *)
(***************************************************************************)
PipeInit ==
    /\ StoreUnborn({"helper", "loop"})
    /\ LibIdle
    /\ pipe = NewPipeline(ForwardingPipeline(h1_recv_uuid, h2_recv_uuid))
    /\ events = <<>>
    /\ task = "none"
    /\ fwd = NoFwd
    /\ ppc = "spawned"
    /\ h1q = <<>>
    /\ h2q = <<>>
    /\ live = {"h1_send", "h1_recv", "h2_send", "h2_recv"}
    /\ lpc = "unborn"
    /\ mpc = "send"
    /\ mres = ""
    /\ printed = <<>>

PipeRuns ==
    \/ ChannelHelper_new
    \/ pipeline /\ UNCHANGED <<storeVars, partyVars, libVars>>
    \/ step_Start /\ UNCHANGED <<storeVars, partyVars, libVars>>
    \/ step_Add /\ UNCHANGED <<storeVars, partyVars, libVars>>
    \/ step_Stringify /\ UNCHANGED <<storeVars, partyVars, libVars>>
    \/ ForwardData_compute
    \/ send_to_next
    \/ receive_from
    \/ receive_from_reply
    \/ ForwardData_try_join
    \/ run_pipe_exit

LoopRuns == loop_recv \/ loop_acked \/ loop_closed

MockRuns == mock_send \/ mock_recv

PipeNext ==
    StoreRuns \/ PipeRuns \/ LoopRuns \/ MockRuns \/ main_join \/ runtime_shutdown

\* Every spawned task that can make progress is eventually polled.
PipeSpec ==
    /\ PipeInit
    /\ [][PipeNext]_vars
    /\ WF_vars(StoreRuns)
    /\ WF_vars(PipeRuns)
    /\ WF_vars(LoopRuns)
    /\ WF_vars(MockRuns)
    /\ WF_vars(main_join)
    /\ WF_vars(runtime_shutdown)

(***************************************************************************)
(* The ForwardingPipeline of helper 1 against a peer that may send bytes   *)
(* that do not decode, or go away.                                         *)
(***************************************************************************)
PeerRuns == peer_send \/ peer_gone \/ mock_recv

ExchangeNext ==
    StoreRuns \/ PipeRuns \/ LoopRuns \/ PeerRuns \/ main_join \/ runtime_shutdown

\* The pipeline's task is polled while it can progress, and so is each of the
\* two futures of try_join!, which polls both whenever it is woken.
ExchangeSpec ==
    /\ PipeInit
    /\ [][ExchangeNext]_vars
    /\ WF_vars(StoreRuns)
    /\ WF_vars(PipeRuns)
    /\ WF_vars(send_to_next)
    /\ WF_vars(ForwardData_try_join)
    /\ WF_vars(LoopRuns)
    /\ WF_vars(main_join)
    /\ WF_vars(runtime_shutdown)

(***************************************************************************)
(* report.rs: matchkey sets, their decryption and their comparison.        *)
(***************************************************************************)
\* The keys of the maps: a party's or a user's label.
Labels == {"u" \o to_string(i) : i \in 1 .. MaxLabels}

\* RistrettoPoint: an element of the group; Scalars multiply them.
Points == 0 .. MaxPoint
Order == MaxPoint + 1

\* Ciphertext: an ElGamal pair (r.G, M + r.PK).
Ciphertexts == [c1 : Points, c2 : Points]

\* DecryptionKey::threshold_decrypt: this holder's share of r.PK is taken
\* off the second component; the result is a ciphertext again.
DecryptionKey_threshold_decrypt(key, emk) ==
    [c1 |-> emk.c1, c2 |-> (emk.c2 + Order - ((key * emk.c1) % Order)) % Order]

\* DecryptionKey::decrypt: the point left once the key's share is taken off.
DecryptionKey_decrypt(key, emk) ==
    (emk.c2 + Order - ((key * emk.c1) % Order)) % Order

\* HashMap<String, _> with its keys among the labels.
HashMaps(V) == UNION {[D -> V] : D \in SUBSET Labels}

\* The orders in which a HashMap may hand out its entries: any.
Orders(map) ==
    {o \in [1 .. Cardinality(DOMAIN map) -> DOMAIN map] :
        \A i, j \in DOMAIN o : o[i] = o[j] => i = j}

\* HashMap::iter and HashMap::values, in the order o.
iter(map, o) == [i \in DOMAIN o |-> <<o[i], map[o[i]]>>]
values(map, o) == [i \in DOMAIN o |-> map[o[i]]]

\* A faulty variant: the values are collected under the labels in sorted
\* order, not under their own.
collect_misplaced(pairs) ==
    LET keys == {pairs[i][1] : i \in DOMAIN pairs}
        rank(l) == Cardinality({k \in keys : \E i, j \in DOMAIN pairs :
                                   pairs[i][1] = k /\ pairs[j][1] = l /\ i <= j})
    IN  [l \in keys |-> pairs[Cardinality(keys) + 1 - rank(l)][2]]

\* Iterator::collect into a HashMap: each key with the value of its last pair.
collect(pairs) ==
    LET keys == {pairs[i][1] : i \in DOMAIN pairs}
        last(l) == CHOOSE i \in DOMAIN pairs :
                       /\ pairs[i][1] = l
                       /\ \A j \in DOMAIN pairs : pairs[j][1] = l => j <= i
    IN  [l \in keys |-> pairs[last(l)][2]]

\* EncryptedMatchkeys::threshold_decrypt.
threshold_decrypt(self, matchkey_decrypt, o) ==
    LET entries == iter(self, o)
    IN  collect([i \in DOMAIN entries |->
                    <<entries[i][1],
                      DecryptionKey_threshold_decrypt(matchkey_decrypt, entries[i][2])>>])

\* EncryptedMatchkeys::decrypt.
decrypt(self, matchkey_decrypt, o) ==
    LET entries == iter(self, o)
    IN  collect([i \in DOMAIN entries |->
                    <<entries[i][1],
                      DecryptionKey_decrypt(matchkey_decrypt, entries[i][2])>>])

\* b.clone().filter(|y| x.eq(y)).count()
RECURSIVE filter_count(_, _)
filter_count(b, x) ==
    IF b = <<>> THEN 0
    ELSE (IF x = Head(b) THEN 1 ELSE 0) + filter_count(Tail(b), x)

\* A faulty variant: the number of distinct values the two sides share.
n_matches_distinct(a, b) ==
    Cardinality({a[i] : i \in DOMAIN a} \cap {b[j] : j \in DOMAIN b})

\* A faulty variant: each element of a counts once if b holds its value.
n_matches_once(a, b) ==
    Cardinality({i \in DOMAIN a : \E j \in DOMAIN b : a[i] = b[j]})

\* n_matches: for each x of a, the count of the y of b equal to it, summed.
RECURSIVE n_matches(_, _)
n_matches(a, b) ==
    IF a = <<>> THEN 0
    ELSE filter_count(b, Head(a)) + n_matches(Tail(a), b)

\* A faulty variant: the two value lists are compared as wholes.
any_matches_structural(a, b) == a = b

\* any_matches: some x of a equals some y of b.
any_matches(a, b) == \E i \in DOMAIN a : \E j \in DOMAIN b : a[i] = b[j]

\* DecryptedMatchkeys::count_matches, and == on DecryptedMatchkeys.
count_matches(self, other, o1, o2) == n_matches(values(self, o1), values(other, o2))
eq(self, other, o1, o2) == any_matches(values(self, o1), values(other, o2))

\* DecryptedMatchkeys::from, twice: two sets are made, each from any map.
DecryptedMatchkeys_from ==
    /\ ret.done = {}
    /\ \E a, b \in HashMaps(Points) : mk' = [mk EXCEPT !.a = a, !.b = b]
    /\ ret' = [ret EXCEPT !.done = {"from"}]
    /\ UNCHANGED <<genVars, storeVars, engineVars, partyVars>>

\* EncryptedMatchkeys::from_matchkeys: a set is made from any map; and a
\* decryption key is at hand.
from_matchkeys ==
    /\ ret.done = {}
    /\ \E enc \in HashMaps(Ciphertexts), key \in Points :
          mk' = [mk EXCEPT !.enc = enc, !.key = key]
    /\ ret' = [ret EXCEPT !.done = {"from"}]
    /\ UNCHANGED <<genVars, storeVars, engineVars, partyVars>>

\* A caller computes a.count_matches(b).
call_count_matches ==
    /\ "from" \in ret.done
    /\ "count_matches" \notin ret.done
    /\ \E o1 \in Orders(mk.a), o2 \in Orders(mk.b) :
          ret' = [ret EXCEPT !.done = @ \cup {"count_matches"},
                             !.n_ab = count_matches(mk.a, mk.b, o1, o2)]
    /\ UNCHANGED <<mk, genVars, storeVars, engineVars, partyVars>>

\* A caller computes b.count_matches(a).
call_count_matches_rev ==
    /\ "from" \in ret.done
    /\ "count_matches_rev" \notin ret.done
    /\ \E o1 \in Orders(mk.b), o2 \in Orders(mk.a) :
          ret' = [ret EXCEPT !.done = @ \cup {"count_matches_rev"},
                             !.n_ba = count_matches(mk.b, mk.a, o1, o2)]
    /\ UNCHANGED <<mk, genVars, storeVars, engineVars, partyVars>>

\* A caller computes a == b.
call_eq ==
    /\ "from" \in ret.done
    /\ "eq" \notin ret.done
    /\ \E o1 \in Orders(mk.a), o2 \in Orders(mk.b) :
          ret' = [ret EXCEPT !.done = @ \cup {"eq"},
                             !.eq_ab = eq(mk.a, mk.b, o1, o2)]
    /\ UNCHANGED <<mk, genVars, storeVars, engineVars, partyVars>>

\* A caller computes a == a: self and other are the one set, walked twice.
call_eq_self ==
    /\ "from" \in ret.done
    /\ "eq_self" \notin ret.done
    /\ \E o \in Orders(mk.a) :
          ret' = [ret EXCEPT !.done = @ \cup {"eq_self"},
                             !.eq_aa = eq(mk.a, mk.a, o, o)]
    /\ UNCHANGED <<mk, genVars, storeVars, engineVars, partyVars>>

\* A caller computes enc.threshold_decrypt(&key).
call_threshold_decrypt ==
    /\ "from" \in ret.done
    /\ "threshold_decrypt" \notin ret.done
    /\ \E o \in Orders(mk.enc) :
          ret' = [ret EXCEPT !.done = @ \cup {"threshold_decrypt"},
                             !.partial = threshold_decrypt(mk.enc, mk.key, o)]
    /\ UNCHANGED <<mk, genVars, storeVars, engineVars, partyVars>>

\* A caller computes enc.decrypt(&key).
call_decrypt ==
    /\ "from" \in ret.done
    /\ "decrypt" \notin ret.done
    /\ \E o \in Orders(mk.enc) :
          ret' = [ret EXCEPT !.done = @ \cup {"decrypt"},
                             !.full = decrypt(mk.enc, mk.key, o)]
    /\ UNCHANGED <<mk, genVars, storeVars, engineVars, partyVars>>

\* Nothing of report.rs has been called yet.
ReportInit == StoreUnborn({}) /\ EngineIdle /\ PartyIdle /\ LibIdle

MatchNext ==
    \/ DecryptedMatchkeys_from
    \/ call_count_matches
    \/ call_count_matches_rev
    \/ call_eq
    \/ call_eq_self

MatchSpec == ReportInit /\ [][MatchNext]_vars

DecryptNext == from_matchkeys \/ call_threshold_decrypt \/ call_decrypt

DecryptSpec == ReportInit /\ [][DecryptNext]_vars

(***************************************************************************)
(* ipa_bench/init.rs: the generator of synthetic events.                   *)
(***************************************************************************)
DAYS_IN_EPOCH == 7

\* The values that are shared: integers modulo ShareModulus.
ShareModulus == 1048576

\* ChaCha20Rng: a stream of words fixed by its seed, and a position in it.
seed_from_u64(seed) == [seed |-> seed, pos |-> 0]

\* A faulty variant: the seed is ignored, the generator is always made from
\* entropy.
new_rng_unseeded(seed, entropy) == [seed |-> entropy, pos |-> 0]

\* The generator generate_events makes: from the seed when one is given, from
\* entropy otherwise.
new_rng(seed, entropy) ==
    IF seed = <<>> THEN seed_from_u64(entropy) ELSE seed_from_u64(seed[1])

\* The word at the generator's position, and the generator moved past it.
next_u32(rng) ==
    ((rng.seed + 1) * 7919 + (rng.pos + 1) * 104729 + rng.pos * rng.pos * 31)
        % ShareModulus
advance(rng) == [rng EXCEPT !.pos = @ + 1]

\* let x = value; body: the value is computed once and then named.  (A LET
\* definition is instead computed anew wherever its name is used.)
Let(value, body(_)) == CHOOSE y \in {body(x) : x \in {value}} : TRUE

\* Rng::gen: a word, and the generator after it.
gen(rng) == [v |-> next_u32(rng), rng |-> advance(rng)]

\* range << range.leading_zeros(): n shifted up as far as a word allows.
RECURSIVE shl_leading_zeros(_)
shl_leading_zeros(n) ==
    IF 2 * n < ShareModulus THEN shl_leading_zeros(2 * n) ELSE n

\* wmul: the product of two words as a high and a low word, computed on
\* half words so that no intermediate value exceeds the integers at hand.
HalfWord == 1024
wmul(a, b) ==
    LET mid == (a \div HalfWord) * (b % HalfWord) + (a % HalfWord) * (b \div HalfWord)
        low == (mid % HalfWord) * HalfWord + (a % HalfWord) * (b % HalfWord)
    IN  [hi |-> (a \div HalfWord) * (b \div HalfWord) + (mid \div HalfWord)
                    + (low \div ShareModulus),
         lo |-> low % ShareModulus]

\* Rng::gen_range(0..n), for 0 < n < ShareModulus: a word is drawn and
\* multiplied by n; the high word of the product is the value if the low word
\* is inside the zone, otherwise the word is rejected and another is drawn.
RECURSIVE gen_range(_, _)
gen_range(rng, n) ==
    Let(wmul(next_u32(rng), n), LAMBDA wide :
        IF wide.lo <= shl_leading_zeros(n) - 1
        THEN [v |-> wide.hi, rng |-> advance(rng)]
        ELSE gen_range(advance(rng), n))

\* Sample: each figure is drawn from the generator it is given.
reach_per_ad(rng) == [v |-> 1 + (next_u32(rng) % MaxReach), rng |-> advance(rng)]
cvr_per_ad_account(rng) == [v |-> next_u32(rng) % 3, rng |-> advance(rng)]
devices_per_user(rng) == [v |-> 1 + (next_u32(rng) % MaxDevices), rng |-> advance(rng)]
impression_per_user(rng) ==
    [v |-> 1 + (next_u32(rng) % MaxImpressions), rng |-> advance(rng)]
conversion_per_user(rng) ==
    [v |-> 1 + (next_u32(rng) % MaxConversions), rng |-> advance(rng)]
impressions_time_diff(rng) == [v |-> next_u32(rng) % 3600, rng |-> advance(rng)]
conversions_time_diff(rng) == [v |-> next_u32(rng) % 3600, rng |-> advance(rng)]
conversion_value_per_ad(rng) == [v |-> next_u32(rng) % 1000, rng |-> advance(rng)]

\* Bernoulli::new(cvr).sample(rng), for a rate of 0, 1/2 or 1 (cvr 0, 1, 2).
\* A rate of 1 is always true and draws nothing; any other rate draws a word
\* and is true when the word is below the rate's share of the words: never
\* for 0, and for 1/2 when the word's top bit is clear.
Bernoulli_sample(cvr, rng) ==
    IF cvr = 2 THEN [v |-> TRUE, rng |-> rng]
    ELSE [v |-> 2 * next_u32(rng) < cvr * ShareModulus, rng |-> advance(rng)]

\* SecretSharable::split: two shares are drawn, the third makes the sum v.
split(v, rng) ==
    LET r1 == next_u32(rng)
        r2 == next_u32(advance(rng))
    IN  [v |-> <<r1, r2, (v + 2 * ShareModulus - r1 - r2) % ShareModulus>>,
         rng |-> advance(advance(rng))]

\* SecretSharable::combine: the sum of the three shares, an error otherwise.
combine(share) ==
    IF Len(share) = 3
    THEN [ok |-> TRUE, v |-> (share[1] + share[2] + share[3]) % ShareModulus]
    ELSE [ok |-> FALSE, v |-> 0]

\* gen_matchkeys: count words of the generator.
RECURSIVE gen_matchkeys(_, _)
gen_matchkeys(count, rng) ==
    IF count = 0 THEN [v |-> <<>>, rng |-> rng]
    ELSE Let(gen_matchkeys(count - 1, advance(rng)), LAMBDA rest :
             [v |-> <<next_u32(rng)>> \o rest.v, rng |-> rest.rng])

\* A faulty variant: the shares are drawn from the generator of the events.
split_ss_shared(v, r) ==
    Let(split(v, r.rng), LAMBDA s : [v |-> s.v, r |-> [r EXCEPT !.rng = s.rng]])

\* x.split(ss_rng) in gen_events: the shares are drawn from the second
\* generator; r is the pair of generators, rng and ss_rng.
split_ss(v, r) ==
    Let(split(v, r.ss_rng), LAMBDA s : [v |-> s.v, r |-> [r EXCEPT !.ss_rng = s.rng]])

\* gen_events, the loop over the matchkeys: each is split.
RECURSIVE split_matchkeys(_, _)
split_matchkeys(matchkeys, r) ==
    IF matchkeys = <<>> THEN [v |-> <<>>, r |-> r]
    ELSE Let(split_ss(Head(matchkeys), r), LAMBDA s :
         Let(split_matchkeys(Tail(matchkeys), s.r), LAMBDA rest :
             [v |-> <<s.v>> \o rest.v, r |-> rest.r]))

\* A field of an event: x.split(ss_rng) when secret_share, x itself otherwise.
field(secret_share, x, r) ==
    IF secret_share THEN split_ss(x, r) ELSE [v |-> x, r |-> r]

\* gen_events, the loop over the impressions.  u holds what the loops share:
\* params, secret_share, matchkeys and ss_mks.
RECURSIVE source_events(_, _, _, _)
source_events(n, last_impression, r, u) ==
    IF n = 0 THEN [events |-> <<>>, last |-> last_impression, r |-> r]
    ELSE Let(impressions_time_diff(r.rng), LAMBDA d :
         Let(last_impression + d.v, LAMBDA t :
         Let(field(u.secret_share, t, [r EXCEPT !.rng = d.rng]), LAMBDA timestamp :
         Let(source_events(n - 1, t, timestamp.r, u), LAMBDA rest :
             [events |->
                  << [type |-> IF u.secret_share THEN "ES" ELSE "S",
                      matchkeys |-> IF u.secret_share THEN u.ss_mks ELSE u.matchkeys,
                      epoch |-> u.params.epoch,
                      timestamp |-> timestamp.v,
                      breakdown_key |-> u.params.breakdown_key] >> \o rest.events,
              last |-> rest.last,
              r |-> rest.r]))))

\* gen_events, the loop over the conversions.
RECURSIVE trigger_events(_, _, _, _)
trigger_events(n, last_conversion, r, u) ==
    IF n = 0 THEN [events |-> <<>>, last |-> last_conversion, r |-> r]
    ELSE Let(conversion_value_per_ad(r.rng), LAMBDA conversion_value :
         Let(conversions_time_diff(conversion_value.rng), LAMBDA d :
         Let(last_conversion + d.v, LAMBDA t :
         Let(field(u.secret_share, t, [r EXCEPT !.rng = d.rng]), LAMBDA timestamp :
         Let(field(u.secret_share, conversion_value.v, timestamp.r), LAMBDA value :
         Let(trigger_events(n - 1, t, value.r, u), LAMBDA rest :
             [events |->
                  << [type |-> IF u.secret_share THEN "ET" ELSE "T",
                      matchkeys |-> IF u.secret_share THEN u.ss_mks ELSE u.matchkeys,
                      epoch |-> u.params.epoch,
                      timestamp |-> timestamp.v,
                      value |-> value.v,
                      zkp |-> "zkp"] >> \o rest.events,
              last |-> rest.last,
              r |-> rest.r]))))))

\* gen_events: the events of one user, sources first, and the two generators
\* as it leaves them.
gen_events(params, secret_share, r) ==
    Let(gen_matchkeys(params.devices, r.rng), LAMBDA matchkeys :
    Let(IF secret_share
        THEN split_matchkeys(matchkeys.v, [r EXCEPT !.rng = matchkeys.rng])
        ELSE [v |-> <<>>, r |-> [r EXCEPT !.rng = matchkeys.rng]], LAMBDA ss_mks :
    Let(gen_range(ss_mks.r.rng, DAYS_IN_EPOCH * 24 * 60 * 60), LAMBDA first :
    Let([params |-> params, secret_share |-> secret_share,
         matchkeys |-> matchkeys.v, ss_mks |-> ss_mks.v], LAMBDA u :
    Let(source_events(params.impressions, first.v,
                      [ss_mks.r EXCEPT !.rng = first.rng], u), LAMBDA sources :
    Let(trigger_events(params.conversions, sources.last, sources.r, u), LAMBDA triggers :
        [events |-> sources.events \o triggers.events, r |-> triggers.r]))))))

\* serde_json::to_string(&e) and the newline: the line written for an event.
to_line(e) ==
    IF e.type \in {"S", "ES"}
    THEN <<e.type, e.matchkeys, e.epoch, e.timestamp, e.breakdown_key>>
    ELSE <<e.type, e.matchkeys, e.epoch, e.timestamp, e.value, e.zkp>>

\* A faulty variant: the count is compared with total_count before an event
\* is written, not after.
RECURSIVE write_events_checks_first(_, _, _)
write_events_checks_first(g, evs, total_count) ==
    IF evs = <<>> THEN g
    ELSE IF g.event_count >= total_count
         THEN [g EXCEPT !.returned = TRUE]
         ELSE Let([g EXCEPT !.out = Append(@, to_line(Head(evs))),
                            !.event_count = @ + 1], LAMBDA g1 :
                  write_events_checks_first(g1, Tail(evs), total_count))

\* generate_events, the loop over a user's events: each is written and
\* counted, and the function returns once the count reaches total_count.
RECURSIVE write_events(_, _, _)
write_events(g, evs, total_count) ==
    IF evs = <<>> THEN g
    ELSE Let([g EXCEPT !.out = Append(@, to_line(Head(evs))),
                       !.event_count = @ + 1], LAMBDA g1 :
             IF g1.event_count >= total_count
             THEN [g1 EXCEPT !.returned = TRUE]
             ELSE write_events(g1, Tail(evs), total_count))

\* generate_events, the body of the loop over the users an ad reached.
user_events(g, call, ad_id, cvr) ==
    Let(devices_per_user(g.r.rng), LAMBDA devices :
    Let(impression_per_user(devices.rng), LAMBDA impressions :
    Let(Bernoulli_sample(cvr, impressions.rng), LAMBDA converted :
    Let(IF converted.v THEN conversion_per_user(converted.rng)
        ELSE [v |-> 0, rng |-> converted.rng], LAMBDA conversions :
    Let(gen_events([devices |-> devices.v, impressions |-> impressions.v,
                    conversions |-> conversions.v, epoch |-> call.epoch,
                    breakdown_key |-> to_string(ad_id)],
                   call.secret_share,
                   [g.r EXCEPT !.rng = conversions.rng]), LAMBDA evs :
    Let([g EXCEPT !.r = evs.r,
                  !.total_impressions = @ + impressions.v,
                  !.total_conversions = @ + conversions.v], LAMBDA g1 :
        write_events(g1, evs.events, call.total_count)))))))

\* generate_events, the loop over the users an ad reached.
RECURSIVE users(_, _, _, _, _)
users(g, call, ad_id, cvr, reach) ==
    IF reach = 0 THEN g
    ELSE Let(user_events(g, call, ad_id, cvr), LAMBDA g1 :
             IF g1.returned THEN g1 ELSE users(g1, call, ad_id, cvr, reach - 1))

\* generate_events, the loop over the ads.
RECURSIVE ads(_, _)
ads(g, call) ==
    Let(gen(g.r.rng), LAMBDA ad_id :
    Let(reach_per_ad(ad_id.rng), LAMBDA reach :
    Let(cvr_per_ad_account(reach.rng), LAMBDA cvr :
    Let(users([g EXCEPT !.r.rng = cvr.rng], call, ad_id.v, cvr.v, reach.v), LAMBDA g1 :
        IF g1.returned THEN g1 ELSE ads(g1, call)))))

\* generate_events: what it writes to out and the pair it returns.  e1 and e2
\* are what the two generators get from entropy when no seed is given.
generate_events(total_count, epoch, secret_share, seed, e1, e2) ==
    Let(ads([r |-> [rng |-> new_rng(seed, e1), ss_rng |-> new_rng(seed, e2)],
             out |-> <<>>, event_count |-> 0,
             total_impressions |-> 0, total_conversions |-> 0,
             returned |-> FALSE],
            [total_count |-> total_count, epoch |-> epoch,
             secret_share |-> secret_share]), LAMBDA g :
        [out |-> g.out, ret |-> <<g.total_impressions, g.total_conversions>>])

\* A caller fixes the count, the epoch and the seed it will call with.
Seeds == 0 .. MaxSeed
OptSeeds == {<<>>} \cup {<<n>> : n \in Seeds}

GenInit ==
    /\ StoreUnborn({}) /\ EngineIdle /\ PartyIdle
    /\ mk = [enc |-> EmptyMatchkeys, key |-> 0, a |-> EmptyMatchkeys, b |-> EmptyMatchkeys]
    /\ ret = NoReturn
    /\ \E total_count \in 0 .. MaxCount, epoch \in 0 .. MaxEpoch, seed \in OptSeeds :
          args = [total_count |-> total_count, epoch |-> epoch, seed |-> seed]
    /\ runs = [i \in Runs |-> NotRun]

\* One call of generate_events with those arguments, secret sharing on or off.
call_generate_events(i) ==
    /\ ~runs[i].done
    /\ \E secret_share \in BOOLEAN, e1, e2 \in Seeds :
          LET res == generate_events(args.total_count, args.epoch, secret_share,
                                     args.seed, e1, e2)
          IN  runs' = [runs EXCEPT ![i] = [done |-> TRUE, secret_share |-> secret_share,
                                           out |-> res.out, ret |-> res.ret]]
    /\ UNCHANGED <<args, reportVars, storeVars, engineVars, partyVars>>

GenNext == \E i \in Runs : call_generate_events(i)

GenSpec == GenInit /\ [][GenNext]_vars

(***************************************************************************)
(* Properties of the rendezvous store.                                     *)
(***************************************************************************)
Last(t) == t[Len(t)]

\* This step is run() handling the command at the head of the channel: the
\* command is dequeued and enters the history.
Handles(op) ==
    /\ receiver # <<>>
    /\ Head(receiver).op = op
    /\ receiver' = Tail(receiver)
    /\ trace' # trace

\* The requester of the command in slot s gets v, if it still holds the receiver.
Replied(s, v) ==
    /\ Last(trace').reply = v
    /\ ack[s].st = "open" => ack'[s] = [st |-> "ready", val |-> v]

\* No command on key k was handled strictly between positions i and j.
Untouched(k, i, j) == \A l \in (i + 1) .. (j - 1) : trace[l].key # k

\* The store handled a Write of key k before position j of its history.
WrittenBefore(k, j) ==
    \E i \in 1 .. (j - 1) : trace[i].op = "Write" /\ trace[i].key = k

\* C1: a read (Remove) of key K issued before any write of K does not
\* complete until a matching write of K has occurred, and then returns
\* exactly the written payload.  The channel is first in, first out, so a
\* Remove issued before any write of K is one handled with no Write of K
\* before it in the history; the history holds the commands the store has
\* completed.  In every state, from the one in which it completes, such a
\* Remove has a Write of K in the history and that Write's payload as its
\* reply; a Remove handled after a Write of K is not its subject.
C1_ReadWaitsForWrite ==
    \A j \in 1 .. Len(trace) :
        (trace[j].op = "Remove" /\ ~WrittenBefore(trace[j].key, j)) =>
            \E i \in 1 .. Len(trace) :
                /\ trace[i].op = "Write"
                /\ trace[i].key = trace[j].key
                /\ trace[j].reply = trace[i].value

\* A Remove of K that came before any write of K was answered None at once;
\* the Write of K came after it, and only a second Remove returned its payload.
C1_Witness ==
    /\ Len(trace) = 3
    /\ trace[1].op = "Remove" /\ trace[1].reply = None /\ trace[1].acked
    /\ trace[2].op = "Write" /\ trace[2].key = trace[1].key
    /\ trace[3].op = "Remove" /\ trace[3].key = trace[1].key
    /\ trace[3].reply = trace[2].value /\ trace[3].acked

\* C2: a Write(K, P) replies with the value stored at K immediately before it
\* (None if K was absent); afterwards the table maps K to P and every other
\* key is unchanged.
C2_WriteRepliesOusted ==
    [][Handles("Write") =>
          LET command == Head(receiver)
          IN  /\ Replied(command.ack, m[command.key])
              /\ m'[command.key] = command.value
              /\ \A k \in Keys \ {command.key} : m'[k] = m[k]]_vars

C2_Witness ==
    \E i \in 1 .. Len(trace) :
        /\ trace[i].op = "Write"
        /\ trace[i].reply \in Payloads
        /\ trace[i].reply # trace[i].value
        /\ trace[i].acked
        /\ m[trace[i].key] = trace[i].value
        /\ \E k \in Keys \ {trace[i].key} : m[k] # None

\* C3: a Remove(K) replies with the value stored at K (None if K is absent),
\* leaves K absent and every other key unchanged; removing an absent key is no
\* error: nothing but the removal is printed when the reply is delivered, the
\* handler keeps running and stays ready to handle the next command.
C3_RemoveRepliesRemoved ==
    /\ [][Handles("Remove") =>
             LET command == Head(receiver)
             IN  /\ Replied(command.ack, m[command.key])
                 /\ m'[command.key] = None
                 /\ \A k \in Keys \ {command.key} : m'[k] = m[k]
                 /\ handler' = "running"
                 /\ ack[command.ack].st = "open" =>
                        stdout' = stdout \cup {"removing data"}]_vars
    /\ [](receiver # <<>> => ENABLED (run_Write \/ run_Remove))

C3_Witness ==
    \E i, j \in 1 .. Len(trace) :
        /\ i < j
        /\ trace[i].op = "Remove" /\ trace[i].reply = None /\ trace[i].acked
        /\ trace[j].op = "Remove" /\ trace[j].reply \in Payloads /\ trace[j].acked
        /\ m[trace[j].key] = None
        /\ "could not complete operation" \notin stdout
        /\ handler = "running"

\* C4: writing K with payload P and then reading K, with no other command on
\* K in between, returns exactly P, whatever was done to other keys meanwhile.
C4_WriteThenRead ==
    \A i, j \in 1 .. Len(trace) :
        (/\ i < j
         /\ trace[i].op = "Write"
         /\ trace[j].op = "Remove"
         /\ trace[i].key = trace[j].key
         /\ Untouched(trace[i].key, i, j))
        => trace[j].reply = trace[i].value

C4_Witness ==
    /\ Len(trace) = 3
    /\ trace[1].op = "Write" /\ trace[3].op = "Remove"
    /\ trace[1].key = trace[3].key
    /\ trace[2].op = "Write" /\ trace[2].key # trace[1].key
    /\ trace[2].value # trace[1].value
    /\ trace[3].acked /\ trace[3].reply = trace[1].value

\* C5: writing K twice (P1 then P2) with no read of K in between: the reply
\* to the second Write is Some(P1).
C5_DoubleWriteReportsFirst ==
    \A i, j \in 1 .. Len(trace) :
        (/\ i < j
         /\ trace[i].op = "Write"
         /\ trace[j].op = "Write"
         /\ trace[i].key = trace[j].key
         /\ Untouched(trace[i].key, i, j))
        => trace[j].reply = trace[i].value

C5_Witness ==
    \E i, j \in 1 .. Len(trace) :
        /\ i < j
        /\ trace[i].op = "Write" /\ trace[j].op = "Write"
        /\ trace[i].key = trace[j].key
        /\ Untouched(trace[i].key, i, j)
        /\ trace[i].value # trace[j].value
        /\ trace[j].acked /\ trace[j].reply = trace[i].value


\* The table and the replies that handling the first n commands of t one after
\* the other, alone, gives.
RECURSIVE SeqMap(_, _)
SeqMap(t, n) ==
    IF n = 0 THEN EmptyMap
    ELSE IF t[n].op = "Write"
         THEN [SeqMap(t, n - 1) EXCEPT ![t[n].key] = t[n].value]
         ELSE [SeqMap(t, n - 1) EXCEPT ![t[n].key] = None]

SeqReply(t, n) == SeqMap(t, n - 1)[t[n].key]

\* C6: the commands of concurrent clients are applied one at a time, in the
\* order run() dequeued them: each step of the handler takes exactly the
\* command at the head of the channel, and every reply and the table are
\* those of handling the dequeued commands sequentially in that order; as
\* long as the handler lives a command leaves the channel only that way.
C6_SerialEquivalence ==
    /\ [](\A n \in 1 .. Len(trace) : trace[n].reply = SeqReply(trace, n))
    /\ [](handler = "running" => m = SeqMap(trace, Len(trace)))
    /\ [][trace' # trace =>
             /\ receiver # <<>>
             /\ receiver' = Tail(receiver)
             /\ trace' = Append(trace, Last(trace'))
             /\ Last(trace').op = Head(receiver).op
             /\ Last(trace').key = Head(receiver).key
             /\ Last(trace').value = Head(receiver).value]_vars
    /\ [][(handler' = "running" /\ receiver' # receiver
              /\ Len(receiver') <= Len(receiver)) =>
             receiver' = Tail(receiver) /\ Len(trace') = Len(trace) + 1]_vars

C6_Witness ==
    /\ Len(trace) = 3
    /\ trace[1].op = "Write" /\ trace[2].op = "Write" /\ trace[3].op = "Remove"
    /\ trace[1].key = trace[3].key /\ trace[2].key = trace[3].key
    /\ trace[3].reply = trace[2].value
    /\ trace[2].reply = trace[1].value
    /\ trace[1].value # trace[2].value
    /\ waiting["c1"] # 0 /\ waiting["c2"] # 0

AckFailed == "could not complete operation" \in stdout

\* C7: when an acknowledgement cannot be delivered (the requester dropped its
\* receiver) the store only prints the failure and keeps running; commands
\* sent afterwards are still handled and, to a requester that still waits,
\* acknowledged with the normal reply.  A waiting requester is left without
\* a reply only when the handler itself is dropped, never by a failed
\* acknowledgement.
C7_AckFailureNotFatal ==
    /\ [][(receiver # <<>> /\ receiver' = Tail(receiver) /\ trace' # trace
              /\ ack[Head(receiver).ack].st # "open") =>
             /\ handler' = "running"
             /\ AckFailed'
             /\ ~Last(trace').acked]_vars
    /\ [](AckFailed <=> \E i \in 1 .. Len(trace) : ~trace[i].acked)
    /\ [](AckFailed /\ receiver # <<>> => ENABLED (run_Write \/ run_Remove))
    /\ [][(AckFailed /\ receiver # <<>> /\ receiver' = Tail(receiver)
              /\ trace' # trace /\ ack[Head(receiver).ack].st = "open") =>
             /\ Last(trace').acked
             /\ ack'[Head(receiver).ack] =
                    [st |-> "ready", val |-> m[Head(receiver).key]]]_vars
    /\ \A s \in Slots : (AckFailed /\ ack[s].st = "open") ~> (ack[s].st # "open")
    /\ [][\A s \in Slots : ack'[s].st = "closed" /\ ack[s].st # "closed" =>
             handler = "running" /\ handler' = "dropped" /\ trace' = trace]_vars

C7_Witness ==
    \E i, j \in 1 .. Len(trace) :
        /\ i < j
        /\ ~trace[i].acked
        /\ trace[i].op = "Write"
        /\ trace[j].acked
        /\ trace[j].reply = trace[i].value
        /\ handler = "running"
        /\ AckFailed

\* C8 as stated: once the command channel is closed (every sender is
\* dropped) the store handles no further command.
C8_NoCommandAfterClose == [][senders = {} => trace' = trace]_vars

\* C8, amended: once the command channel is closed the store still handles the
\* commands buffered in it, in order; recv() returns None exactly when every
\* sender is dropped and the buffer is empty, and then the loop ends, the
\* handler and its table are dropped and "closing" is printed; from then on
\* nothing is handled.  Only the drop of the handler where it stands (its
\* task aborted) ends it sooner, with the same line, and discards what is
\* buffered.
C8_ClosedDrainsThenStops ==
    /\ [](handler = "dropped" => receiver = <<>> /\ m = EmptyMap)
    /\ [](handler = "dropped" <=> "closing" \in stdout)
    /\ [](ENABLED run_Closed <=>
             handler = "running" /\ senders = {} /\ receiver = <<>>)
    /\ []((handler = "running" /\ senders = {} /\ receiver # <<>>) =>
             ENABLED (run_Write \/ run_Remove))
    /\ [][handler = "dropped" =>
             UNCHANGED <<m, receiver, trace, handler, stdout>>]_vars
    /\ [][senders = {} /\ trace' # trace =>
             receiver # <<>> /\ receiver' = Tail(receiver)]_vars
    /\ [][(senders = {} /\ handler = "running" /\ handler' = "dropped"
              /\ receiver # <<>>) =>
             /\ trace' = trace
             /\ \A i \in DOMAIN receiver : ack'[receiver[i].ack].st \in {"closed", "free"}]_vars
    /\ (senders = {} ~> handler = "dropped")

\* The channel was closed with a command buffered whose requester had given
\* up; the store handled it all the same, and then ended.
C8_Witness ==
    /\ handler = "dropped"
    /\ senders = {}
    /\ "closing" \in stdout
    /\ Len(trace) = MaxReq
    /\ nreq = MaxReq
    /\ ~Last(trace).acked


(***************************************************************************)
(* Properties of the two-party exchange and of the pipeline engine.        *)
(***************************************************************************)
BothComplete ==
    /\ pipe.state = "Completed"
    /\ pipe.out = Ok(Str(MockMessage))
    /\ mpc = "done"
    /\ mres = to_string(3)

Terminal == {"Completed", "Failed"}

\* C10: the steps of a pipeline run execute strictly in their declared order:
\* a step begins only after its predecessor has ended, with exactly the
\* predecessor's output as its input; the run goes NotStarted -> Running ->
\* Completed(output) or Failed(error), and a terminal state never changes.
C10_StepsInDeclaredOrder ==
    /\ [](\A i \in 1 .. Len(events) :
             /\ events[i].step = (i + 1) \div 2
             /\ events[i].ev = IF i % 2 = 1 THEN "begin" ELSE "end")
    /\ [](\A i \in 1 .. Len(events) :
             events[i].ev = "begin" =>
                 events[i].v = IF i = 1 THEN Unit ELSE events[i - 1].v)
    /\ [](pipe.state = "NotStarted" => events = <<>> /\ pipe.out = NoResult)
    /\ [](pipe.state = "Running" => pipe.out = NoResult)
    /\ [](pipe.state = "Completed" =>
             /\ Len(events) = 2 * Len(pipe.steps)
             /\ pipe.out = Ok(Last(events).v))
    /\ [](pipe.state = "Failed" => ~pipe.out.ok /\ pipe.out.err # "pending")
    /\ [][pipe.state' # pipe.state =>
             <<pipe.state, pipe.state'>> \in
                 {<<"NotStarted", "Running">>, <<"Running", "Completed">>,
                  <<"Running", "Failed">>}]_vars
    /\ [][pipe.state \in Terminal => pipe' = pipe /\ events' = events]_vars

C10_Witness ==
    /\ pipe.state = "Completed"
    /\ Len(events) = 8
    /\ events[5].v = events[4].v
    /\ events[6].v = Pair(events[5].v.a, 3)
    /\ task = "joined"
    /\ pipe.steps[1].arg = <<1, 2>>

\* The actions that compute a step of the pipeline.
StepRuns ==
    \/ step_Start \/ step_Add \/ step_Stringify
    \/ PairWith3_spawn \/ PairWith3_join
    \/ ForwardData_compute \/ ForwardData_try_join

\* C11: when a step of a pipeline fails, no later step is executed (none has
\* begun and none can begin), and the run's result is that step's error, set
\* once and never replaced: no output, partial or complete, is returned.
C11_FailFast ==
    /\ [](pipe.state = "Failed" =>
             /\ pipe.idx < Len(pipe.steps)
             /\ Len(events) = 2 * pipe.idx + 1
             /\ Last(events) = [ev |-> "begin", step |-> pipe.idx + 1, v |-> pipe.val]
             /\ ~(ENABLED StepRuns))
    /\ [](pipe.state = "Failed" => pipe.out = Err("Internal"))
    /\ [](pipe.out.ok => pipe.state = "Completed" /\ Len(events) = 2 * Len(pipe.steps))
    /\ [][pipe.out # NoResult => pipe.out' = pipe.out /\ events' = events]_vars

\* PairWith3, the third of four steps, has failed: its task was cancelled.
C11_Witness ==
    /\ pipe.state = "Failed"
    /\ pipe.out = Err("Internal")
    /\ pipe.idx = 2
    /\ Len(pipe.steps) = 4
    /\ task = "joined"
    /\ Len(events) = 5

\* This step is try_join! returning from ForwardData::compute.
Joins == fwd.send # "joined" /\ fwd'.send = "joined"

\* ForwardData::compute has a future that has failed.
ExchangeFailed == AtStep("ForwardData") /\ "err" \in {fwd.send, fwd.recv}

\* The store has been given the awaited id: a Write of it is handled or buffered.
Arrived ==
    \/ \E i \in 1 .. Len(trace) : trace[i].op = "Write" /\ trace[i].key = h2_recv_uuid
    \/ \E i \in 1 .. Len(receiver) :
           receiver[i].op = "Write" /\ receiver[i].key = h2_recv_uuid

\* The inbound channel has closed before the awaited id arrived, and the
\* pipeline has not yet returned.
InboundClosedEarly ==
    /\ lpc = "ended"
    /\ ~Arrived
    /\ pipe.state \in {"NotStarted", "Running"}

\* C12: the send and the receive of ForwardData's exchange are awaited
\* concurrently (neither waits for the other to finish); the exchange fails as
\* soon as either has failed, without waiting for the other, and returns the
\* error of a failed one; it returns the received value only when the send
\* and the receive have both succeeded, the receive with a payload the store
\* held for the awaited id.  A receive fails on a payload that does not
\* decode and on an id that is not there, as when the inbound channel closed
\* before the id arrived: then the exchange fails in the end.
C12_TryJoinFailsFast ==
    /\ [](AtStep("ForwardData") /\ fwd.send = "new" => ENABLED send_to_next)
    /\ [](AtStep("ForwardData") /\ fwd.recv = "new" /\ Len(receiver) < ChanCap
             => ENABLED receive_from)
    /\ [](ExchangeFailed => ENABLED ForwardData_try_join)
    /\ [][Joins =>
             /\ pipe'.out.ok <=> (fwd.send = "ok" /\ fwd.recv = "ok")
             /\ pipe'.out.ok => pipe'.out.val = Str(fwd.val) /\ pipe'.state = "Completed"
             /\ ~pipe'.out.ok => pipe'.state = "Failed"
             /\ pipe'.out.err = "SendError" => fwd.send = "err"
             /\ pipe'.out.err = "ReceiveError" => fwd.recv = "err"
             /\ pipe'.out.err \in {"", "SendError", "ReceiveError"}]_vars
    /\ [](pipe.out.ok =>
             /\ pipe.out.val = Str(MockMessage)
             /\ (h2q = <<>> => mpc = "done" /\ mres = to_string(3)))
    /\ [](pipe.out.ok =>
             \E i, j \in 1 .. Len(trace) :
                 /\ i < j
                 /\ trace[i].op = "Write" /\ trace[i].key = h2_recv_uuid
                 /\ trace[j].op = "Remove" /\ trace[j].key = h2_recv_uuid
                 /\ trace[j].reply = trace[i].value
                 /\ from_utf8(trace[j].reply) = pipe.out.val.s)
    /\ [](pipe.state = "Failed" /\ fwd.send = "joined" =>
             pipe.out.err \in {"SendError", "ReceiveError"})
    /\ (ExchangeFailed ~> pipe.state = "Failed")
    /\ (InboundClosedEarly ~> pipe.state = "Failed")

\* The exchange has failed on the receive although its send succeeded: the
\* peer went away without sending, the inbound channel closed before the id
\* arrived, and the read found nothing; the string is on its way to the peer,
\* and nothing is returned but the error.
C12_Witness ==
    /\ pipe.state = "Failed"
    /\ pipe.out = Err("ReceiveError")
    /\ fwd.send = "joined"
    /\ h2q = <<encode(h1_recv_uuid, as_bytes(to_string(3)))>>
    /\ lpc = "ended"
    /\ ~Arrived
    /\ Len(trace) = 1
    /\ trace[1].op = "Remove" /\ trace[1].reply = None
    /\ printed = <<>>

\* The peer has dropped the receiving end of helper 1's outbound queue.
ReceiverGone == "h2_recv" \notin live

\* The message helper 1 sends to the next helper.
Outbound == encode(h1_recv_uuid, as_bytes(to_string(3)))

\* C13: a send on a helper channel whose peer has dropped the receiving end
\* of the outbound queue does not succeed and does not suspend forever: once
\* the receiving end is gone nothing more is enqueued; the exchange returns a
\* value only if its message was enqueued while the receiving end was held;
\* a send that found the queue closed gives its caller a SendError, which
\* try_join! returns from the step, the pipeline returns to main, and main
\* panics on; a send still to be made on a closed queue ends in the
\* pipeline's failure, never in a pipeline left waiting.
C13_SendToClosedQueue ==
    /\ [][ReceiverGone => h2q' = h2q]_vars
    /\ [](pipe.out.ok => h2q = <<Outbound>> \/ (mpc = "done" /\ mres = to_string(3)))
    /\ [][Joins /\ fwd.send = "err" => pipe'.out = Err("SendError")]_vars
    /\ [](pipe.out = Err("SendError") => ReceiverGone /\ h2q = <<>> /\ mpc = "failed")
    /\ [](printed # <<>> /\ pipe.out = Err("SendError") => printed = <<"panic">>)
    /\ (AtStep("ForwardData") /\ fwd.send = "new" /\ ReceiverGone
            ~> pipe.state = "Failed")
    /\ (pipe.out = Err("SendError") ~> printed = <<"panic">>)

\* The peer went away before helper 1 sent: the pipeline has returned the
\* SendError, the outbound queue holds nothing, and main has panicked on it.
C13_Witness ==
    /\ pipe.out = Err("SendError")
    /\ pipe.state = "Failed"
    /\ ReceiverGone
    /\ h2q = <<>>
    /\ ppc = "exited"
    /\ printed = <<"panic">>

\* The x and y of the pipeline's Start step.
StartX == pipe.steps[1].arg[1]
StartY == pipe.steps[1].arg[2]

\* C14: the pipeline Start(x, y) -> Add -> PairWith3 -> Add completes, and its
\* output is x + y + 3 (6 for Start(1, 2)), although PairWith3 gets its 3 from
\* a spawned task that sleeps first and is joined afterwards.
C14_OutputIsSumPlus3 ==
    /\ [](pipe.state = "Completed" =>
             /\ pipe.out = Ok(I32(StartX + StartY + 3))
             /\ task = "joined")
    /\ [](pipe.state = "Completed" /\ StartX = 1 /\ StartY = 2 => pipe.out.val.a = 6)
    /\ [](task = "sleeping" => AtStep("PairWith3") /\ pipe.val = I32(StartX + StartY))
    /\ [](pipe.state # "Failed")
    /\ <>(pipe.state = "Completed")

\* Start(1, 2) has completed with 6.
C14_Witness ==
    /\ pipe.state = "Completed"
    /\ pipe.steps[1].arg = <<1, 2>>
    /\ pipe.out = Ok(I32(6))
    /\ events[6].v = Pair(3, 3)

(***************************************************************************)
(* Properties of the matchkey report model.                                *)
(***************************************************************************)
\* The pairs of entries, one of a and one of b, that hold the same value.
MatchingPairs(a, b) == {pr \in (DOMAIN a) \X (DOMAIN b) : a[pr[1]] = b[pr[2]]}

\* The values a set holds.
Range(f) == {f[l] : l \in DOMAIN f}

\* C15: a.count_matches(b) is the number of pairs of an entry of a and an
\* entry of b with equal values, in whatever order the maps are walked;
\* duplicates on both sides all count, so it can exceed the number of values
\* the two sets share.
C15_CountsMatchingPairs ==
    "count_matches" \in ret.done =>
        /\ ret.n_ab = Cardinality(MatchingPairs(mk.a, mk.b))
        /\ ret.n_ab >= Cardinality(Range(mk.a) \cap Range(mk.b))

\* Two entries on each side, all four with one value: four matches, one
\* shared value.
C15_Witness ==
    /\ "count_matches" \in ret.done
    /\ Cardinality(DOMAIN mk.a) = 2
    /\ Cardinality(DOMAIN mk.b) = 2
    /\ Cardinality(Range(mk.a) \cup Range(mk.b)) = 1
    /\ ret.n_ab = 4

\* The two counts of the sets just made differ, and a holds a value twice.
Asymmetric(a, b) ==
    /\ Cardinality(Range(a)) < Cardinality(DOMAIN a)
    /\ \E o1 \in Orders(a), o2 \in Orders(b), o3 \in Orders(b), o4 \in Orders(a) :
          count_matches(a, b, o1, o2) # count_matches(b, a, o3, o4)

\* C16 as stated: there are sets a and b, a holding a value twice, for which
\* a.count_matches(b) differs from b.count_matches(a): before any set is
\* made, two such sets can be made.
C16_AsymmetryExists ==
    ret.done = {} => ENABLED (DecryptedMatchkeys_from /\ Asymmetric(mk'.a, mk'.b))

\* C16, amended: count_matches is symmetric: a.count_matches(b) equals
\* b.count_matches(a) for all a and b, also when a holds a value twice.
C16_CountIsSymmetric ==
    {"count_matches", "count_matches_rev"} \subseteq ret.done => ret.n_ab = ret.n_ba

\* a holds one value twice, b holds it once: two matches either way round.
C16_Witness ==
    /\ {"count_matches", "count_matches_rev"} \subseteq ret.done
    /\ Cardinality(DOMAIN mk.a) = 2
    /\ Cardinality(Range(mk.a)) = 1
    /\ Cardinality(DOMAIN mk.b) = 1
    /\ Range(mk.b) = Range(mk.a)
    /\ ret.n_ab = 2
    /\ ret.n_ba = 2

\* C17: a == b is true exactly when a.count_matches(b) > 0, that is when some
\* value of a is a value of b; it is not equality of the two maps.
C17_EqIsAnySharedValue ==
    /\ "eq" \in ret.done => (ret.eq_ab <=> Range(mk.a) \cap Range(mk.b) # {})
    /\ {"eq", "count_matches"} \subseteq ret.done => (ret.eq_ab <=> ret.n_ab > 0)

\* Two maps of different sizes that agree on no label are equal.
C17_Witness ==
    /\ {"eq", "count_matches"} \subseteq ret.done
    /\ ret.eq_ab
    /\ Cardinality(DOMAIN mk.a) # Cardinality(DOMAIN mk.b)
    /\ \A l \in (DOMAIN mk.a) \cap (DOMAIN mk.b) : mk.a[l] # mk.b[l]
    /\ (DOMAIN mk.a) \cap (DOMAIN mk.b) # {}

\* C18: threshold_decrypt and decrypt return a set with exactly the labels
\* of the input, each label with the partial or full decryption of its own
\* ciphertext, in whatever order the map is walked, and the input is left as
\* it was.
C18_DecryptKeepsLabels ==
    /\ []("threshold_decrypt" \in ret.done =>
             /\ DOMAIN ret.partial = DOMAIN mk.enc
             /\ \A l \in DOMAIN mk.enc :
                   ret.partial[l] = DecryptionKey_threshold_decrypt(mk.key, mk.enc[l]))
    /\ []("decrypt" \in ret.done =>
             /\ DOMAIN ret.full = DOMAIN mk.enc
             /\ \A l \in DOMAIN mk.enc :
                   ret.full[l] = DecryptionKey_decrypt(mk.key, mk.enc[l]))
    /\ [][ret.done # {} => mk' = mk]_vars

\* Both decryptions of a set of two entries whose decryptions differ.
C18_Witness ==
    /\ ret.done = {"from", "threshold_decrypt", "decrypt"}
    /\ DOMAIN mk.enc = Labels
    /\ mk.key # 0
    /\ Cardinality(Range(ret.full)) = Cardinality(Labels)
    /\ Cardinality(Range(ret.partial)) = Cardinality(Labels)
    /\ ret.partial # mk.enc

(***************************************************************************)
(* Properties of the event generator.                                      *)
(***************************************************************************)
\* The shares combine to the value v.
CombinesTo(share, v) == combine(share) = [ok |-> TRUE, v |-> v]

\* The line p of a run without secret sharing and the line s of a run with
\* it are the same event: the same kind, epoch and breakdown key or zkp, and
\* the shared fields of s combine to the fields of p.
SameEvent(p, s) ==
    /\ p[1] \in {"S", "T"}
    /\ s[1] = IF p[1] = "S" THEN "ES" ELSE "ET"
    /\ s[3] = p[3]
    /\ Len(s[2]) = Len(p[2])
    /\ \A k \in 1 .. Len(p[2]) : CombinesTo(s[2][k], p[2][k])
    /\ CombinesTo(s[4], p[4])
    /\ IF p[1] = "S" THEN s[5] = p[5]
       ELSE CombinesTo(s[5], p[5]) /\ s[6] = p[6]

\* C19: of two runs of generate_events with the same seed and count, one
\* without and one with secret sharing, the outputs correspond line by line:
\* the i-th events are of the same kind, with the same epoch and breakdown
\* key or zkp, and the shared matchkeys, timestamp and value of the one
\* combine to the plain fields of the other; the two runs return the same
\* pair.
C19_SharedMatchesPlain ==
    \A i, j \in Runs :
        (/\ runs[i].done /\ ~runs[i].secret_share
         /\ runs[j].done /\ runs[j].secret_share
         /\ args.seed # <<>>)
        => /\ Len(runs[j].out) = Len(runs[i].out)
           /\ \A k \in 1 .. Len(runs[i].out) : SameEvent(runs[i].out[k], runs[j].out[k])
           /\ runs[j].ret = runs[i].ret

\* A plain and a shared run of MaxCount events, sources and triggers among
\* them, and more than one matchkey in some event.
C19_Witness ==
    /\ runs[1].done /\ ~runs[1].secret_share
    /\ runs[2].done /\ runs[2].secret_share
    /\ args.seed # <<>>
    /\ Len(runs[1].out) = MaxCount
    /\ \E k \in 1 .. Len(runs[2].out) : runs[2].out[k][1] = "ES"
    /\ \E k \in 1 .. Len(runs[2].out) :
          runs[2].out[k][1] = "ET" /\ Len(runs[2].out[k][2]) > 1

\* C20: two runs of generate_events with the same seed, count, epoch and
\* secret_share write the same lines and return the same pair.
C20_SameSeedSameOutput ==
    (/\ runs[1].done
     /\ runs[2].done
     /\ runs[1].secret_share = runs[2].secret_share
     /\ args.seed # <<>>)
    => runs[1].out = runs[2].out /\ runs[1].ret = runs[2].ret

\* Two runs with secret sharing, from one seed, of MaxCount events.
C20_Witness ==
    /\ runs[1].done /\ runs[1].secret_share
    /\ runs[2].done /\ runs[2].secret_share
    /\ args.seed # <<>>
    /\ args.total_count = MaxCount
    /\ Len(runs[1].out) = MaxCount
    /\ runs[1].ret[1] > 0

(***************************************************************************)
(* Further properties of the rendezvous store.                             *)
(***************************************************************************)
\* This step is run() handling a command whose oneshot receiver was dropped.
HandlesUnacked(op) == Handles(op) /\ ack[Head(receiver).ack].st # "open"

\* C21: a Write or Remove whose acknowledgement cannot be delivered is still
\* applied to the table: handling it changes the table exactly as an
\* acknowledged command does and records the failure, nothing undoes it, and
\* so the next command on its key sees its effect: a later Remove of a key
\* written by such a Write returns the written payload, and a command after
\* such a Remove finds the key absent.
C21_UnackedStillApplied ==
    /\ [][HandlesUnacked("Write") =>
             /\ m' = [m EXCEPT ![Head(receiver).key] = Head(receiver).value]
             /\ ~Last(trace').acked]_vars
    /\ [][HandlesUnacked("Remove") =>
             /\ m' = [m EXCEPT ![Head(receiver).key] = None]
             /\ ~Last(trace').acked]_vars
    /\ [](\A i, j \in 1 .. Len(trace) :
             (/\ i < j
              /\ ~trace[i].acked
              /\ trace[i].key = trace[j].key
              /\ Untouched(trace[i].key, i, j))
             => trace[j].reply =
                    IF trace[i].op = "Write" THEN trace[i].value ELSE None)
    /\ [](handler = "running" =>
             \A i \in 1 .. Len(trace) :
                 (~trace[i].acked /\ Untouched(trace[i].key, i, Len(trace) + 1))
                 => m[trace[i].key] =
                        IF trace[i].op = "Write" THEN trace[i].value ELSE None)

C21_Witness ==
    /\ Len(trace) = 3
    /\ trace[1].op = "Write" /\ ~trace[1].acked
    /\ trace[2].op = "Remove" /\ trace[2].key = trace[1].key
    /\ trace[2].acked /\ trace[2].reply = trace[1].value
    /\ trace[3].op = "Remove" /\ trace[3].key = trace[1].key
    /\ ~trace[3].acked /\ trace[3].reply = None
    /\ handler = "running" /\ m[trace[1].key] = None

\* The commands on key k in the history, as positions in handling order.
RECURSIVE OnKey(_, _)
OnKey(k, n) ==
    IF n = 0 THEN <<>>
    ELSE IF trace[n].key = k THEN Append(OnKey(k, n - 1), n) ELSE OnKey(k, n - 1)

\* C22: the table holds at most one payload per key and the last write wins:
\* after Write(K, P1) and next on K a Write(K, P2), the table holds P2 at K,
\* the second Write is answered P1, a Remove(K) that comes next on K returns
\* P2 and the Remove(K) after it returns None, so that P1 is seen in no reply
\* but the second Write's.
C22_LastWriteWins ==
    /\ m \in [Keys -> OptPayload]
    /\ \A k \in Keys :
          LET on == OnKey(k, Len(trace))
          IN  \A n \in 1 .. (Len(on) - 1) :
                  (trace[on[n]].op = "Write" /\ trace[on[n + 1]].op = "Write") =>
                      LET P1 == trace[on[n]].value
                          P2 == trace[on[n + 1]].value
                      IN  /\ trace[on[n + 1]].reply = P1
                          /\ (n + 1 = Len(on) /\ handler = "running") => m[k] = P2
                          /\ (n + 2 <= Len(on) /\ trace[on[n + 2]].op = "Remove") =>
                                 /\ trace[on[n + 2]].reply = P2
                                 /\ (n + 2 = Len(on) /\ handler = "running")
                                        => m[k] = None
                          /\ (/\ n + 3 <= Len(on)
                              /\ trace[on[n + 2]].op = "Remove"
                              /\ trace[on[n + 3]].op = "Remove") =>
                                 trace[on[n + 3]].reply = None

C22_Witness ==
    /\ Len(trace) = 4
    /\ \A i \in 1 .. 4 : trace[i].key = trace[1].key /\ trace[i].acked
    /\ trace[1].op = "Write" /\ trace[2].op = "Write"
    /\ trace[3].op = "Remove" /\ trace[4].op = "Remove"
    /\ trace[1].value # trace[2].value
    /\ trace[2].reply = trace[1].value
    /\ trace[3].reply = trace[2].value
    /\ trace[4].reply = None

(***************************************************************************)
(* Further properties of the matchkey sets.                                *)
(***************************************************************************)
\* C23: == on DecryptedMatchkeys is not reflexive: a == a is true exactly
\* when a has at least one entry, so the empty set is not equal to itself;
\* nor is it equal to any other set, whichever side it stands on.
C23_EqNotReflexive ==
    /\ "eq_self" \in ret.done => (ret.eq_aa <=> DOMAIN mk.a # {})
    /\ ("eq" \in ret.done /\ (DOMAIN mk.a = {} \/ DOMAIN mk.b = {})) => ~ret.eq_ab

\* The empty set compared with itself and with a set that has entries.
C23_Witness ==
    /\ {"eq", "eq_self"} \subseteq ret.done
    /\ DOMAIN mk.a = {}
    /\ DOMAIN mk.b # {}
    /\ ~ret.eq_aa
    /\ ~ret.eq_ab

(***************************************************************************)
(* Further properties of the event generator.                              *)
(***************************************************************************)
\* The lines a run wrote, and the events made for the users it got to.
Written(i) == Len(runs[i].out)
Generated(i) == runs[i].ret[1] + runs[i].ret[2]

\* C24: when generate_events returns it has written max(total_count, 1)
\* event lines: it returns right after the write that brings the count to
\* total_count, leaving the rest of that user's events unwritten (so never
\* more lines than events made), and as the count is compared only after a
\* write, one line is written even when total_count is 0.
C24_WritesMaxOfCountAndOne ==
    \A i \in Runs :
        runs[i].done =>
            /\ Written(i) = IF args.total_count > 1 THEN args.total_count ELSE 1
            /\ Written(i) <= Generated(i)

\* A run asked for no event that wrote one and left others of the same user
\* unwritten.
C24_Witness ==
    /\ args.total_count = 0
    /\ runs[1].done
    /\ Written(1) = 1
    /\ Generated(1) > 1

=============================================================================
